---- MODULE Spec2Model ----
(***************************************************************************)
(* A state-machine model of degenbot's V3LiquidityPool                     *)
(* (src/src/degenbot/uniswap/v3_liquidity_pool.py): the live pool state,   *)
(* the tick bitmap and tick map, the block-indexed state archive, and the  *)
(* operations external_update, auto_update, restore_state_before_block,    *)
(* discard_states_before_block and the swap simulations.                   *)
(*                                                                         *)
(* Python objects are modelled as follows.                                 *)
(*  - UniswapV3PoolState is an immutable record; the pool's setters build  *)
(*    a new one on every scalar write.  Its tick_bitmap and tick_data      *)
(*    fields are REFERENCES to two dict objects that external_update,      *)
(*    flipTick and _fetch_tick_data_at_word mutate in place; no operation  *)
(*    modelled here rebinds them after construction.  The variables        *)
(*    tick_bitmap and tick_data are those two dict objects; the record     *)
(*    `state` holds the scalar fields, and every PoolState (live, archived *)
(*    or published) refers to the same two dicts.                          *)
(*  - a dict is a function whose DOMAIN is its key set; the archive, whose *)
(*    insertion order the code reads (list(items())[-1]), is a sequence of *)
(*    [block, state] entries in insertion order with unique blocks.        *)
(*  - None is the empty sequence, a present optional value v is <<v>>.     *)
(*  - a 256-bit bitmap word is the set of its set bit positions.           *)
(***************************************************************************)
EXTENDS Integers, Sequences, FiniteSets, TLC

VARIABLES
    state,                \* live PoolState scalars: liquidity, sqrt_price_x96, tick
    tick_bitmap,          \* the tick_bitmap dict: word -> [bitmap, block]
    tick_data,            \* the tick_data dict: tick -> [liquidityNet, liquidityGross, block]
    update_block,         \* self._update_block
    archive,              \* self._pool_state_archive (insertion ordered), <<>> when disabled
    archive_states,       \* constructor flag: archive is not None
    sparse_liquidity_map, \* self.sparse_liquidity_map
    minted,               \* ghost: liquidity known to be minted on each range
    faithful,             \* ghost: no update so far burned liquidity never minted
    hist,                 \* ghost: the last calls, most recent first
    ncalls,               \* ghost: number of calls made so far
    threads,              \* each calling thread's position in external_update
    swap,                 \* the last swap simulation made on the pool as it is, or None
    archived_maps,        \* ghost: block -> the two dicts as they were when the
                          \* archive entry of the block was written
    failing_subscribers,  \* the subscribers whose notify() raises
    notified,             \* ghost: the notification the last call made, with the
                          \* pool as it was when _notify_subscribers was called
    fetching,             \* what a simulation running without the lock has read
                          \* from the provider and not yet stored, or None
    simulating,           \* the simulation that has run and not yet returned, or None
    connections,          \* web3_connection_manager.connections: chain id -> Web3
    default_chain_id,     \* web3_connection_manager.default_chain_id, or None
    config_calls,         \* ghost: the calls made to degenbot.config, oldest first
    all_pools,            \* AllPools(chain_id): address -> pool object
    tracked_pools,        \* the managers' shared _tracked_pools: address -> pool object
    untracked_pools,      \* the managers' shared _untracked_pools
    getters,              \* each thread's position in get_pool
    manager_log           \* ghost: the get_pool calls started, the pool objects
                          \* built and the objects returned

\* the variables of the pool
pool_vars == <<state, tick_bitmap, tick_data, update_block, archive, archive_states,
               sparse_liquidity_map, minted, faithful, hist, ncalls, threads, swap,
               archived_maps, failing_subscribers, notified, fetching, simulating>>
\* the Web3 registry of degenbot.config
config_vars == <<connections, default_chain_id, config_calls>>
\* the pool managers of one chain and factory
manager_vars == <<all_pools, tracked_pools, untracked_pools, getters, manager_log>>

vars == <<pool_vars, config_vars, manager_vars>>

-----------------------------------------------------------------------------
(* Program constants and the pool's construction parameters *)

MIN_TICK == -887272
MAX_TICK == 887272
WordBits == 256
TickSpacing == 60
InitBlock == 1         \* state_block given to the constructor

(* Bounds of the model *)
MaxBlock == 3          \* block numbers are 0..MaxBlock
MaxCalls == 2          \* calls per behaviour of SpecUpdate
MaxArchiveCalls == 3   \* calls per behaviour of Spec
MaxConcCalls == 2      \* calls per behaviour of SpecConc
MaxLiqCalls == 2       \* liquidity events per behaviour of SpecLiq
MaxSims == 2           \* simulations per behaviour of SpecSim
MaxNotifyCalls == 2    \* calls per behaviour of SpecNotify
MaxRaceCalls == 2      \* external updates per behaviour of SpecRace
MaxRefreshCalls == 2   \* calls per behaviour of SpecRefresh
MaxGetCalls == 3       \* get_pool calls per behaviour of SpecManager
MaxConfigCalls == 3    \* calls per behaviour of SpecConfig
MaxWordCalls == 2      \* calls per behaviour of SpecWords
MaxReportCalls == 2    \* external updates per behaviour of SpecReport

Threads == {1, 2}       \* the threads sharing the pool in SpecConc
Subscribers == {1, 2}   \* the subscribers of the pool

None == <<>>
Some(v) == <<v>>
IsSome(o) == Len(o) > 0
Val(o) == o[1]

-----------------------------------------------------------------------------
(* dict helpers *)

Put(f, k, v) == [x \in DOMAIN f \cup {k} |-> IF x = k THEN v ELSE f[x]]
Del(f, k) == [x \in DOMAIN f \ {k} |-> f[x]]
EmptyDict == [x \in {} |-> 0]

-----------------------------------------------------------------------------
(* Tick bitmap *)

\* get_tick_word_and_bit_position: floor division, also for negative ticks
TickWord(tick) == (tick \div TickSpacing) \div WordBits
TickBit(tick) == (tick \div TickSpacing) % WordBits

\* UniswapV3BitmapAtWord(): bitmap 0, block None
EmptyWord == [bitmap |-> {}, block |-> None]

\* TickBitmap.flipTick: toggles the tick's bit and stamps the word's block
flipTick(bm, tick, blk) ==
    [bm EXCEPT ![TickWord(tick)] =
        [bitmap |-> (@.bitmap \ {TickBit(tick)}) \cup ({TickBit(tick)} \ @.bitmap),
         block |-> Some(blk)]]

IsInitialized(bm, tick) ==
    TickWord(tick) \in DOMAIN bm /\ TickBit(tick) \in bm[TickWord(tick)].bitmap

-----------------------------------------------------------------------------
(* Chain-state provider *)

\* The ticks the model's events and provider answers refer to
ModelTicks == {-120, -60, 0, 60, 120}
TicksInWord(w) == {t \in ModelTicks : TickWord(t) = w}

\* What the provider can return for one bitmap word: the initialized ticks of
\* the word with their liquidityNet / liquidityGross (get_tick_bitmap_at_word
\* and get_populated_ticks_in_word).
ProviderAnswers(w) ==
    IF w = -1 THEN
        { EmptyDict,
          [t \in {-120} |-> [liquidityNet |-> 1, liquidityGross |-> 1]],
          [t \in {-120, -60} |-> [liquidityNet |-> IF t = -120 THEN 1 ELSE -1,
                                  liquidityGross |-> 1]] }
    ELSE IF w = 0 THEN
        { EmptyDict,
          [t \in {0, 60} |-> [liquidityNet |-> IF t = 0 THEN 1 ELSE -1,
                              liquidityGross |-> 1]] }
    ELSE { EmptyDict }

\* _fetch_tick_data_at_word: store the word and every populated tick of it,
\* stamped with block_number.  m is [bm, td], the two dicts.
RECURSIVE StoreTicks(_, _, _, _)
StoreTicks(td, answer, todo, blk) ==
    IF todo = {} THEN td
    ELSE LET t == CHOOSE x \in todo : TRUE
         IN StoreTicks(Put(td, t, [liquidityNet |-> answer[t].liquidityNet,
                                   liquidityGross |-> answer[t].liquidityGross,
                                   block |-> Some(blk)]),
                       answer, todo \ {t}, blk)

fetch_tick_data_at_word(m, word_position, block_number, answer) ==
    [bm |-> Put(m.bm, word_position,
                [bitmap |-> {TickBit(t) : t \in DOMAIN answer},
                 block |-> Some(block_number)]),
     td |-> StoreTicks(m.td, answer, DOMAIN answer, block_number)]

-----------------------------------------------------------------------------
(* external_update *)

NoChange == None
HasLiquidityChange(u) ==
    u.liquidity_change # NoChange /\ u.liquidity_change[1] # 0

\* lines 874-887: each present field that differs replaces the live state
ApplyFields(s, u) ==
    LET s1 == IF IsSome(u.tick) /\ Val(u.tick) # s.tick
              THEN [s EXCEPT !.tick = Val(u.tick)] ELSE s
        s2 == IF IsSome(u.liquidity) /\ Val(u.liquidity) # s1.liquidity
              THEN [s1 EXCEPT !.liquidity = Val(u.liquidity)] ELSE s1
        s3 == IF IsSome(u.sqrt_price_x96) /\ Val(u.sqrt_price_x96) # s2.sqrt_price_x96
              THEN [s2 EXCEPT !.sqrt_price_x96 = Val(u.sqrt_price_x96)] ELSE s2
    IN s3

\* lines 893-896: in-range liquidity adjustment
InRange_UpperInclusive(lower_tick, tick, upper_tick) ==
    lower_tick <= tick /\ tick <= upper_tick

InRange(lower_tick, tick, upper_tick) ==
    lower_tick <= tick /\ tick < upper_tick

AdjustInRange(s, u) ==
    IF HasLiquidityChange(u)
       /\ InRange(u.liquidity_change[2], s.tick, u.liquidity_change[3])
    THEN [s EXCEPT !.liquidity = @ + u.liquidity_change[1]]
    ELSE s

\* lines 907-924: make the word of `tick` known before touching its bit
EnsureWord(m, tick, block_number, answer) ==
    IF TickWord(tick) \in DOMAIN m.bm THEN m
    ELSE IF sparse_liquidity_map
         THEN fetch_tick_data_at_word(m, TickWord(tick), block_number - 1, answer)
         ELSE [m EXCEPT !.bm = Put(@, TickWord(tick), EmptyWord)]

\* lines 945-950
NewLiquidityNet_AlwaysAdd(net, delta, tick, lower_tick) == net + delta

NewLiquidityNet(net, delta, tick, lower_tick) ==
    IF tick = lower_tick THEN net + delta ELSE net - delta

NewLiquidityGross(gross, delta) == gross + delta

\* lines 904-967: one iteration of `for tick in (lower_tick, upper_tick)`
UpdateTick_KeepEmpty(m0, tick, delta, lower_tick, block_number, answer) ==
    LET m1 == EnsureWord(m0, tick, block_number, answer)
        known == tick \in DOMAIN m1.td
        net == IF known THEN m1.td[tick].liquidityNet ELSE 0
        gross == IF known THEN m1.td[tick].liquidityGross ELSE 0
        bm2 == IF known THEN m1.bm ELSE flipTick(m1.bm, tick, block_number)
    IN [bm |-> bm2,
        td |-> Put(m1.td, tick,
                   [liquidityNet |-> NewLiquidityNet(net, delta, tick, lower_tick),
                    liquidityGross |-> NewLiquidityGross(gross, delta),
                    block |-> Some(block_number)])]

\* the entry deleted when the gross liquidity returns to zero, the bit left set
UpdateTick_DeleteOnly(m0, tick, delta, lower_tick, block_number, answer) ==
    LET m1 == EnsureWord(m0, tick, block_number, answer)
        known == tick \in DOMAIN m1.td
        net == IF known THEN m1.td[tick].liquidityNet ELSE 0
        gross == IF known THEN m1.td[tick].liquidityGross ELSE 0
        bm2 == IF known THEN m1.bm ELSE flipTick(m1.bm, tick, block_number)
        new_liquidity_net == NewLiquidityNet(net, delta, tick, lower_tick)
        new_liquidity_gross == NewLiquidityGross(gross, delta)
    IN IF new_liquidity_gross = 0
       THEN [bm |-> bm2, td |-> Del(m1.td, tick)]
       ELSE [bm |-> bm2,
             td |-> Put(m1.td, tick,
                        [liquidityNet |-> new_liquidity_net,
                         liquidityGross |-> new_liquidity_gross,
                         block |-> Some(block_number)])]

UpdateTick(m0, tick, delta, lower_tick, block_number, answer) ==
    LET m1 == EnsureWord(m0, tick, block_number, answer)
        known == tick \in DOMAIN m1.td
        net == IF known THEN m1.td[tick].liquidityNet ELSE 0
        gross == IF known THEN m1.td[tick].liquidityGross ELSE 0
        bm2 == IF known THEN m1.bm ELSE flipTick(m1.bm, tick, block_number)
        new_liquidity_net == NewLiquidityNet(net, delta, tick, lower_tick)
        new_liquidity_gross == NewLiquidityGross(gross, delta)
    IN IF new_liquidity_gross = 0
       THEN [bm |-> flipTick(bm2, tick, block_number), td |-> Del(m1.td, tick)]
       ELSE [bm |-> bm2,
             td |-> Put(m1.td, tick,
                        [liquidityNet |-> new_liquidity_net,
                         liquidityGross |-> new_liquidity_gross,
                         block |-> Some(block_number)])]

\* lines 889-967: the liquidity_change branch on the two dicts
ApplyLiquidityChange(m, u, answerLower, answerUpper) ==
    IF ~HasLiquidityChange(u) THEN m
    ELSE LET delta == u.liquidity_change[1]
             lower_tick == u.liquidity_change[2]
             upper_tick == u.liquidity_change[3]
             mL == UpdateTick(m, lower_tick, delta, lower_tick, u.block_number, answerLower)
         IN UpdateTick(mL, upper_tick, delta, lower_tick, u.block_number, answerUpper)

\* dict assignment `archive[block] = state`: an existing key keeps its place
ArchiveHas(a, b) == \E i \in DOMAIN a : a[i].block = b
ArchivePut_KeepFirst(a, b, s) ==
    IF ArchiveHas(a, b) THEN a ELSE Append(a, [block |-> b, state |-> s])

ArchivePut(a, b, s) ==
    IF ArchiveHas(a, b)
    THEN [i \in DOMAIN a |-> IF a[i].block = b THEN [block |-> b, state |-> s] ELSE a[i]]
    ELSE Append(a, [block |-> b, state |-> s])
ArchiveKeys(a) == {a[i].block : i \in DOMAIN a}
ArchiveGet(a, b) == (CHOOSE e \in {a[i] : i \in DOMAIN a} : e.block = b).state

\* line 865: the staleness check
IsStale_Inclusive(u, recorded) == u.block_number <= recorded

IsStale(u, recorded) == u.block_number < recorded

-----------------------------------------------------------------------------
(* TickMath at the model's resolution: one price unit per tick *)

PriceBase == 16384
PriceStep == 2
get_sqrt_ratio_at_tick(tick) == PriceBase + PriceStep * tick
\* the greatest tick whose ratio is at or below the price
get_tick_at_sqrt_ratio(sqrt_price_x96) == (sqrt_price_x96 - PriceBase) \div PriceStep
MIN_SQRT_RATIO == get_sqrt_ratio_at_tick(MIN_TICK)
MAX_SQRT_RATIO == get_sqrt_ratio_at_tick(MAX_TICK)

-----------------------------------------------------------------------------
(* FullMath, SqrtPriceMath and LiquidityMath at the model's resolution: the *)
(* amount of either token between two prices is liquidity * distance /      *)
(* PriceStep, rounded as the library rounds                                 *)

muldiv(a, b, denominator) == (a * b) \div denominator
muldiv_rounding_up(a, b, denominator) == (a * b + denominator - 1) \div denominator

Distance(a, b) == IF a <= b THEN b - a ELSE a - b
get_amount_delta(sqrt_ratio_a, sqrt_ratio_b, liquidity, round_up) ==
    IF round_up
    THEN muldiv_rounding_up(liquidity, Distance(sqrt_ratio_a, sqrt_ratio_b), PriceStep)
    ELSE muldiv(liquidity, Distance(sqrt_ratio_a, sqrt_ratio_b), PriceStep)
get_amount0_delta(sqrt_ratio_a, sqrt_ratio_b, liquidity, round_up) ==
    get_amount_delta(sqrt_ratio_a, sqrt_ratio_b, liquidity, round_up)
get_amount1_delta(sqrt_ratio_a, sqrt_ratio_b, liquidity, round_up) ==
    get_amount_delta(sqrt_ratio_a, sqrt_ratio_b, liquidity, round_up)

\* the price reached from sqrt_price by paying amount_in: never past the
\* price the amount affords
get_next_sqrt_price_from_input(sqrt_price, liquidity, amount_in, zero_for_one) ==
    IF zero_for_one
    THEN sqrt_price - muldiv(amount_in, PriceStep, liquidity)
    ELSE sqrt_price + muldiv(amount_in, PriceStep, liquidity)

\* the price reached from sqrt_price by taking amount_out: far enough to
\* yield the amount
get_next_sqrt_price_from_output(sqrt_price, liquidity, amount_out, zero_for_one) ==
    IF zero_for_one
    THEN sqrt_price - muldiv_rounding_up(amount_out, PriceStep, liquidity)
    ELSE sqrt_price + muldiv_rounding_up(amount_out, PriceStep, liquidity)

\* LiquidityMath.addDelta: <<x + y>>, or None where the contract reverts
addDelta(x, y) == IF x + y < 0 THEN None ELSE Some(x + y)

-----------------------------------------------------------------------------
(* SwapMath.computeSwapStep, v3_libraries/swap_math.py lines 5-105 *)

FeePips == 3000
FeeDenominator == 1000000

\* the step sized on the whole remaining amount, the fee charged on top
computeSwapStep_NoFeeReserve(sqrt_ratio_x96_current, sqrt_ratio_x96_target, liquidity, amount_remaining, fee_pips) ==
    LET zero_for_one == sqrt_ratio_x96_current >= sqrt_ratio_x96_target
        exact_in == amount_remaining >= 0
        amount_remaining_minus_fee == amount_remaining
        amount_in_0 ==
            IF ~exact_in THEN 0
            ELSE IF zero_for_one
            THEN get_amount0_delta(sqrt_ratio_x96_target, sqrt_ratio_x96_current,
                                   liquidity, TRUE)
            ELSE get_amount1_delta(sqrt_ratio_x96_current, sqrt_ratio_x96_target,
                                   liquidity, TRUE)
        amount_out_0 ==
            IF exact_in THEN 0
            ELSE IF zero_for_one
            THEN get_amount1_delta(sqrt_ratio_x96_target, sqrt_ratio_x96_current,
                                   liquidity, FALSE)
            ELSE get_amount0_delta(sqrt_ratio_x96_current, sqrt_ratio_x96_target,
                                   liquidity, FALSE)
        sqrt_ratio_x96_next ==
            IF exact_in
            THEN IF amount_remaining_minus_fee >= amount_in_0
                 THEN sqrt_ratio_x96_target
                 ELSE get_next_sqrt_price_from_input(sqrt_ratio_x96_current, liquidity,
                                                     amount_remaining_minus_fee,
                                                     zero_for_one)
            ELSE IF -amount_remaining >= amount_out_0
                 THEN sqrt_ratio_x96_target
                 ELSE get_next_sqrt_price_from_output(sqrt_ratio_x96_current, liquidity,
                                                      -amount_remaining, zero_for_one)
        reached_target_price == sqrt_ratio_x96_target = sqrt_ratio_x96_next
        amount_in ==
            IF reached_target_price /\ exact_in THEN amount_in_0
            ELSE IF zero_for_one
            THEN get_amount0_delta(sqrt_ratio_x96_next, sqrt_ratio_x96_current,
                                   liquidity, TRUE)
            ELSE get_amount1_delta(sqrt_ratio_x96_current, sqrt_ratio_x96_next,
                                   liquidity, TRUE)
        amount_out_1 ==
            IF reached_target_price /\ ~exact_in THEN amount_out_0
            ELSE IF zero_for_one
            THEN get_amount1_delta(sqrt_ratio_x96_next, sqrt_ratio_x96_current,
                                   liquidity, FALSE)
            ELSE get_amount0_delta(sqrt_ratio_x96_current, sqrt_ratio_x96_next,
                                   liquidity, FALSE)
        amount_out ==
            IF ~exact_in /\ amount_out_1 > -amount_remaining
            THEN -amount_remaining ELSE amount_out_1
        fee_amount ==
            IF exact_in /\ sqrt_ratio_x96_next # sqrt_ratio_x96_target
            THEN amount_remaining - amount_in
            ELSE muldiv_rounding_up(amount_in, fee_pips, FeeDenominator - fee_pips)
    IN [sqrt_ratio_x96_next |-> sqrt_ratio_x96_next, amount_in |-> amount_in,
        amount_out |-> amount_out, fee_amount |-> fee_amount]

computeSwapStep(sqrt_ratio_x96_current, sqrt_ratio_x96_target, liquidity, amount_remaining, fee_pips) ==
    LET zero_for_one == sqrt_ratio_x96_current >= sqrt_ratio_x96_target
        exact_in == amount_remaining >= 0
        amount_remaining_minus_fee ==
            muldiv(amount_remaining, FeeDenominator - fee_pips, FeeDenominator)
        amount_in_0 ==
            IF ~exact_in THEN 0
            ELSE IF zero_for_one
            THEN get_amount0_delta(sqrt_ratio_x96_target, sqrt_ratio_x96_current,
                                   liquidity, TRUE)
            ELSE get_amount1_delta(sqrt_ratio_x96_current, sqrt_ratio_x96_target,
                                   liquidity, TRUE)
        amount_out_0 ==
            IF exact_in THEN 0
            ELSE IF zero_for_one
            THEN get_amount1_delta(sqrt_ratio_x96_target, sqrt_ratio_x96_current,
                                   liquidity, FALSE)
            ELSE get_amount0_delta(sqrt_ratio_x96_current, sqrt_ratio_x96_target,
                                   liquidity, FALSE)
        sqrt_ratio_x96_next ==
            IF exact_in
            THEN IF amount_remaining_minus_fee >= amount_in_0
                 THEN sqrt_ratio_x96_target
                 ELSE get_next_sqrt_price_from_input(sqrt_ratio_x96_current, liquidity,
                                                     amount_remaining_minus_fee,
                                                     zero_for_one)
            ELSE IF -amount_remaining >= amount_out_0
                 THEN sqrt_ratio_x96_target
                 ELSE get_next_sqrt_price_from_output(sqrt_ratio_x96_current, liquidity,
                                                      -amount_remaining, zero_for_one)
        reached_target_price == sqrt_ratio_x96_target = sqrt_ratio_x96_next
        amount_in ==
            IF reached_target_price /\ exact_in THEN amount_in_0
            ELSE IF zero_for_one
            THEN get_amount0_delta(sqrt_ratio_x96_next, sqrt_ratio_x96_current,
                                   liquidity, TRUE)
            ELSE get_amount1_delta(sqrt_ratio_x96_current, sqrt_ratio_x96_next,
                                   liquidity, TRUE)
        amount_out_1 ==
            IF reached_target_price /\ ~exact_in THEN amount_out_0
            ELSE IF zero_for_one
            THEN get_amount1_delta(sqrt_ratio_x96_next, sqrt_ratio_x96_current,
                                   liquidity, FALSE)
            ELSE get_amount0_delta(sqrt_ratio_x96_current, sqrt_ratio_x96_next,
                                   liquidity, FALSE)
        amount_out ==
            IF ~exact_in /\ amount_out_1 > -amount_remaining
            THEN -amount_remaining ELSE amount_out_1
        fee_amount ==
            IF exact_in /\ sqrt_ratio_x96_next # sqrt_ratio_x96_target
            THEN amount_remaining - amount_in
            ELSE muldiv_rounding_up(amount_in, fee_pips, FeeDenominator - fee_pips)
    IN [sqrt_ratio_x96_next |-> sqrt_ratio_x96_next, amount_in |-> amount_in,
        amount_out |-> amount_out, fee_amount |-> fee_amount]

-----------------------------------------------------------------------------
(* TickBitmap.nextInitializedTickWithinOneWord: the next initialized tick, *)
(* or the last tick of the word, searching at or below `tick` (lte) or     *)
(* above it; None where it raises BitmapWordUnavailableError               *)

MaxOf(S) == CHOOSE x \in S : \A y \in S : y <= x
MinOf(S) == CHOOSE x \in S : \A y \in S : x <= y

\* the bitmap word the search looks in, named by BitmapWordUnavailableError
BitmapWordOf(tick, tick_spacing, lte) ==
    (IF lte THEN tick \div tick_spacing ELSE tick \div tick_spacing + 1) \div WordBits

nextInitializedTickWithinOneWord(bm, tick, tick_spacing, lte) ==
    LET compressed == tick \div tick_spacing
        start == IF lte THEN compressed ELSE compressed + 1
        word_pos == start \div WordBits
        bit_pos == start % WordBits
    IN IF word_pos \notin DOMAIN bm THEN None
       ELSE LET masked == IF lte THEN {b \in bm[word_pos].bitmap : b <= bit_pos}
                          ELSE {b \in bm[word_pos].bitmap : b >= bit_pos}
                initialized == masked # {}
                next == IF lte
                        THEN IF initialized
                             THEN (start - (bit_pos - MaxOf(masked))) * tick_spacing
                             ELSE (start - bit_pos) * tick_spacing
                        ELSE IF initialized
                             THEN (start + (MinOf(masked) - bit_pos)) * tick_spacing
                             ELSE (start + (WordBits - 1 - bit_pos)) * tick_spacing
            IN Some([tick_next |-> next, initialized |-> initialized])

-----------------------------------------------------------------------------
(* _calculate_swap, lines 325-473.  A value computed once by the code and  *)
(* used many times is bound once here, as the element of a one-element set. *)

\* lines 403-411
ClampTick(tick_next) ==
    IF tick_next < MIN_TICK THEN MIN_TICK
    ELSE IF tick_next > MAX_TICK THEN MAX_TICK
    ELSE tick_next

\* lines 419-428: the price computeSwapStep aims at
StepTarget_AlwaysLimit(zero_for_one, sqrt_price_next_x96, sqrt_price_limit_x96) ==
    sqrt_price_limit_x96

StepTarget(zero_for_one, sqrt_price_next_x96, sqrt_price_limit_x96) ==
    IF \/ zero_for_one /\ sqrt_price_next_x96 < sqrt_price_limit_x96
       \/ ~zero_for_one /\ sqrt_price_next_x96 > sqrt_price_limit_x96
    THEN sqrt_price_limit_x96
    ELSE sqrt_price_next_x96

\* lines 447-453: the liquidity after crossing an initialized tick
CrossTick_Skip(liquidity, liquidityNet, zero_for_one) == Some(liquidity)
CrossTick_SameSign(liquidity, liquidityNet, zero_for_one) ==
    addDelta(liquidity, liquidityNet)

CrossTick(liquidity, liquidityNet, zero_for_one) ==
    addDelta(liquidity, IF zero_for_one THEN -liquidityNet ELSE liquidityNet)

\* lines 432-459: the SwapState after a step that found the tick `found` and
\* computed `step`
AfterStep(st, td, found, step, zero_for_one, exact_input) ==
    LET tick_next == ClampTick(found.tick_next)
        sqrt_price_next_x96 == get_sqrt_ratio_at_tick(tick_next)
        remaining == IF exact_input
                     THEN st.amount_specified_remaining - (step.amount_in + step.fee_amount)
                     ELSE st.amount_specified_remaining + step.amount_out
        calculated == IF exact_input
                      THEN st.amount_calculated - step.amount_out
                      ELSE st.amount_calculated + step.amount_in + step.fee_amount
        crossed == IF found.initialized
                   THEN CrossTick(st.liquidity, td[tick_next].liquidityNet, zero_for_one)
                   ELSE Some(st.liquidity)
        moved == [st EXCEPT !.amount_specified_remaining = remaining,
                            !.amount_calculated = calculated,
                            !.sqrt_price_x96 = step.sqrt_ratio_x96_next]
    IN IF step.sqrt_ratio_x96_next = sqrt_price_next_x96
       THEN IF found.initialized /\ tick_next \notin DOMAIN td
            THEN [moved EXCEPT !.reverted = "KeyError"]
            ELSE IF crossed = None
            THEN [moved EXCEPT !.reverted = "LS"]
            ELSE [moved EXCEPT !.liquidity = crossed[1],
                               !.tick = IF zero_for_one THEN tick_next - 1 ELSE tick_next]
       ELSE IF step.sqrt_ratio_x96_next # st.sqrt_price_x96
       THEN [moved EXCEPT !.tick = get_tick_at_sqrt_ratio(step.sqrt_ratio_x96_next)]
       ELSE moved

\* lines 413-431: the step from st towards the tick `found`
StepTowards(st, td, found, zero_for_one, sqrt_price_limit_x96, exact_input) ==
    CHOOSE after \in
        { AfterStep(st, td, found, step, zero_for_one, exact_input) :
            step \in { computeSwapStep(
                          st.sqrt_price_x96,
                          StepTarget(zero_for_one,
                                     get_sqrt_ratio_at_tick(ClampTick(found.tick_next)),
                                     sqrt_price_limit_x96),
                          st.liquidity, st.amount_specified_remaining, FeePips) } } : TRUE

\* The while loop works on run = [st, m, trace]: the SwapState, the pool's own
\* two dicts (self.tick_bitmap, self.tick_data) and, as a ghost, the record of
\* the iterations made.  env holds what the loop only reads: zero_for_one,
\* sqrt_price_limit_x96, exact_input, whether _tick_bitmap / _tick_data are the
\* pool's own dicts (own) or those of override_state (override_maps), and what
\* the provider returns for a bitmap word (answers) or fails on (failing).

StepRec(kind, start, end, found, target, word) ==
    [kind |-> kind, start |-> start, end |-> end,
     tick_next |-> ClampTick(found.tick_next), initialized |-> found.initialized,
     target |-> target, word |-> word]

AnswerFor(answers, word) == IF word \in DOMAIN answers THEN answers[word] ELSE EmptyDict

\* lines 395-404: the word is not in _tick_bitmap.  The fetch stores into the
\* pool's own dicts (lines 562-571) and the iteration is entered again; when
\* _tick_bitmap is the dict of override_state the word is still missing
\* there, the same fetch is repeated without end and the call never returns.
FetchAndRetry_Surface(run, env) ==
    [run EXCEPT !.st = [run.st EXCEPT !.reverted = "BitmapWordUnavailableError"]]

FetchAndRetry(run, env) ==
    LET missing_word == BitmapWordOf(run.st.tick, TickSpacing, env.zero_for_one)
        nothing == [tick_next |-> 0, initialized |-> FALSE]
        Ended(why) == [run.st EXCEPT !.reverted = why]
    IN IF ~sparse_liquidity_map
       THEN [run EXCEPT !.st = Ended("AssertionError")]
       ELSE IF missing_word \in env.failing
       THEN [run EXCEPT !.st = Ended("ProviderError"),
                        !.trace = Append(@, StepRec("fetch", run.st, Ended("ProviderError"),
                                                    nothing, 0, missing_word))]
       ELSE [st |-> IF env.own THEN run.st ELSE Ended("NeverReturns"),
             m |-> fetch_tick_data_at_word(run.m, missing_word, update_block,
                                           AnswerFor(env.answers, missing_word)),
             trace |-> Append(run.trace,
                              StepRec("fetch", run.st, run.st, nothing, 0, missing_word))]

\* lines 406-459: the tick `found` and the step towards it
StepTaken(run, td, found, env) ==
    CHOOSE next \in
        { [run EXCEPT !.st = after,
                      !.trace = Append(@, StepRec("step", run.st, after, found,
                                  StepTarget(env.zero_for_one,
                                             get_sqrt_ratio_at_tick(ClampTick(found.tick_next)),
                                             env.sqrt_price_limit_x96),
                                  0))] :
            after \in { StepTowards(run.st, td, found, env.zero_for_one,
                                    env.sqrt_price_limit_x96, env.exact_input) } } : TRUE

\* line 404: `continue` enters the iteration again, on the pool's own dicts,
\* which now hold the word
Retry(run, env) ==
    IF run.st.reverted # "" THEN run
    ELSE CHOOSE next \in
            { StepTaken(run, run.m.td, found[1], env) :
                found \in { nextInitializedTickWithinOneWord(
                                run.m.bm, run.st.tick, TickSpacing, env.zero_for_one) } } : TRUE

\* lines 384-459: one iteration of the while loop, with the retry that
\* follows a fetch
SwapStep(run, env) ==
    CHOOSE next \in
        { IF found = None
          THEN CHOOSE retried \in
                  { Retry(fetched, env) : fetched \in { FetchAndRetry(run, env) } } : TRUE
          ELSE StepTaken(run, (IF env.own THEN run.m ELSE env.override_maps).td,
                         found[1], env) :
            found \in { nextInitializedTickWithinOneWord(
                            (IF env.own THEN run.m ELSE env.override_maps).bm,
                            run.st.tick, TickSpacing, env.zero_for_one) } } : TRUE

\* lines 381-383: the while loop
RECURSIVE SwapLoop(_, _)
SwapLoop(run, env) ==
    IF \/ run.st.reverted # ""
       \/ run.st.amount_specified_remaining = 0
       \/ run.st.sqrt_price_x96 = env.sqrt_price_limit_x96
    THEN run
    ELSE CHOOSE end \in { SwapLoop(next, env) : next \in { SwapStep(run, env) } } : TRUE

\* the call raised `why` before the loop
Reverted(why, m) ==
    [reverted |-> why, amount0 |-> 0, amount1 |-> 0, sqrt_price_x96 |-> 0,
     liquidity |-> 0, tick |-> 0, remaining |-> 0, m |-> m, read |-> m, trace |-> <<>>]

\* the result of the loop that ended in `end`
Returned_From_Swapped(end, env, amount_specified) ==
    LET specified == amount_specified - end.st.amount_specified_remaining
    IN [reverted |-> end.st.reverted,
        amount0 |-> IF env.zero_for_one = env.exact_input
                    THEN end.st.amount_calculated ELSE specified,
        amount1 |-> IF env.zero_for_one = env.exact_input
                    THEN specified ELSE end.st.amount_calculated,
        sqrt_price_x96 |-> end.st.sqrt_price_x96,
        liquidity |-> end.st.liquidity,
        tick |-> end.st.tick,
        remaining |-> end.st.amount_specified_remaining,
        m |-> end.m,
        read |-> IF env.own THEN end.m ELSE env.override_maps,
        trace |-> end.trace]

Returned_From(end, env, amount_specified) ==
    LET specified == amount_specified - end.st.amount_specified_remaining
    IN [reverted |-> end.st.reverted,
        amount0 |-> IF env.zero_for_one = env.exact_input
                    THEN specified ELSE end.st.amount_calculated,
        amount1 |-> IF env.zero_for_one = env.exact_input
                    THEN end.st.amount_calculated ELSE specified,
        sqrt_price_x96 |-> end.st.sqrt_price_x96,
        liquidity |-> end.st.liquidity,
        tick |-> end.st.tick,
        remaining |-> end.st.amount_specified_remaining,
        m |-> end.m,
        read |-> IF env.own THEN end.m ELSE env.override_maps,
        trace |-> end.trace]

\* lines 362-370: the limit lies strictly between the global bound and the
\* price the simulation starts from, on the side the trade moves the price to
LimitInRange_Inclusive(zero_for_one, sqrt_price_x96, sqrt_price_limit_x96) ==
    IF zero_for_one
    THEN MIN_SQRT_RATIO <= sqrt_price_limit_x96 /\ sqrt_price_limit_x96 <= sqrt_price_x96
    ELSE sqrt_price_x96 <= sqrt_price_limit_x96 /\ sqrt_price_limit_x96 <= MAX_SQRT_RATIO

LimitInRange(zero_for_one, sqrt_price_x96, sqrt_price_limit_x96) ==
    IF zero_for_one
    THEN MIN_SQRT_RATIO < sqrt_price_limit_x96 /\ sqrt_price_limit_x96 < sqrt_price_x96
    ELSE sqrt_price_x96 < sqrt_price_limit_x96 /\ sqrt_price_limit_x96 < MAX_SQRT_RATIO

\* s: the scalars of override_state, or of the live state; m: the pool's two
\* dicts; override_maps: <<the dicts of override_state>>, or None when it has
\* none (lines 346-360)
calculate_swap(s, m, override_maps, zero_for_one, amount_specified, sqrt_price_limit_x96, answers, failing) ==
    IF amount_specified = 0 THEN Reverted("AS", m)
    ELSE IF ~LimitInRange(zero_for_one, s.sqrt_price_x96, sqrt_price_limit_x96)
    THEN Reverted("SPL", m)
    ELSE LET env == [zero_for_one |-> zero_for_one,
                     sqrt_price_limit_x96 |-> sqrt_price_limit_x96,
                     exact_input |-> amount_specified > 0,
                     own |-> override_maps = None,
                     override_maps |-> IF override_maps = None THEN m ELSE override_maps[1],
                     answers |-> answers,
                     failing |-> failing]
         IN CHOOSE result \in
               { Returned_From(end, env, amount_specified) :
                   end \in { SwapLoop([st |-> [amount_specified_remaining |-> amount_specified,
                                               amount_calculated |-> 0,
                                               sqrt_price_x96 |-> s.sqrt_price_x96,
                                               tick |-> s.tick,
                                               liquidity |-> s.liquidity,
                                               reverted |-> ""],
                                       m |-> m,
                                       trace |-> <<>>], env) } } : TRUE

-----------------------------------------------------------------------------
(* Positions: the liquidity minted on each tick range *)

AllRanges == {r \in ModelTicks \X ModelTicks : r[1] < r[2]}
NoPositions == [r \in AllRanges |-> 0]

RECURSIVE SumOver(_, _)
SumOver(f, S) ==
    IF S = {} THEN 0
    ELSE LET x == CHOOSE y \in S : TRUE IN f[x] + SumOver(f, S \ {x})

\* on-chain bookkeeping of a set of positions
NetAt(pos, t) ==
    SumOver(pos, {r \in AllRanges : r[1] = t}) - SumOver(pos, {r \in AllRanges : r[2] = t})
GrossAt(pos, t) ==
    SumOver(pos, {r \in AllRanges : r[1] = t \/ r[2] = t})
ActiveLiquidity(pos, tick) ==
    SumOver(pos, {r \in AllRanges : r[1] <= tick /\ tick < r[2]})
TickDataFrom(pos, blk) ==
    [t \in {x \in ModelTicks : GrossAt(pos, x) # 0} |->
        [liquidityNet |-> NetAt(pos, t), liquidityGross |-> GrossAt(pos, t),
         block |-> Some(blk)]]

-----------------------------------------------------------------------------
(* Ghost record of a call *)

NoUpdate ==
    [block_number |-> -1, tick |-> None, liquidity |-> None,
     sqrt_price_x96 |-> None, liquidity_change |-> NoChange]
NoReading == [liquidity |-> 0, sqrt_price_x96 |-> 0, tick |-> 0]

\* what a liquidity_change call finds at one of its boundary ticks
TickView(t) ==
    [known |-> t \in DOMAIN tick_data,
     liquidityNet |-> IF t \in DOMAIN tick_data THEN tick_data[t].liquidityNet ELSE 0,
     liquidityGross |-> IF t \in DOMAIN tick_data THEN tick_data[t].liquidityGross ELSE 0,
     loaded |-> TickWord(t) \in DOMAIN tick_bitmap,
     initialized |-> IsInitialized(tick_bitmap, t)]

\* the pool as a liquidity_change call finds it: the two boundary ticks, the
\* active liquidity and the liquidity known to be minted on the range
BoundaryView(u) ==
    IF u.liquidity_change = NoChange THEN None
    ELSE Some([lower |-> TickView(u.liquidity_change[2]),
               upper |-> TickView(u.liquidity_change[3]),
               liquidity |-> state.liquidity,
               minted |-> minted[<<u.liquidity_change[2], u.liquidity_change[3]>>]])

\* The calls _fetch_tick_data_at_word(word_position, block_number) makes to
\* the provider, in order, each with the block_identifier it passes (None
\* where the call passes none): tickBitmap(word) at lines 549-551 and, for a
\* word that is not empty, again at lines 496-500, then ticks(tick) for each
\* initialized tick at lines 506-523; `answer` is what the provider returns.
ProviderRead(function, argument, block_identifier) ==
    [function |-> function, argument |-> argument, block_identifier |-> block_identifier]

RECURSIVE TickReads(_)
TickReads(todo) ==
    IF todo = {} THEN <<>>
    ELSE <<ProviderRead("ticks(int24)", MinOf(todo), None)>> \o TickReads(todo \ {MinOf(todo)})

ProviderReads(word_position, block_number, answer) ==
    <<ProviderRead("tickBitmap(int16)", word_position, Some(block_number))>>
    \o (IF DOMAIN answer = {} THEN <<>>
        ELSE <<ProviderRead("tickBitmap(int16)", word_position, Some(block_number))>>
             \o TickReads(DOMAIN answer))

\* the fetches of one external_update (lines 907-920), each with the block
\* handed to _fetch_tick_data_at_word and its provider reads
UpdateFetches(u, fetchedLower, fetchedUpper) ==
    (IF fetchedLower = None THEN <<>>
     ELSE <<[word_position |-> TickWord(u.liquidity_change[2]),
             block_number |-> u.block_number - 1,
             reads |-> ProviderReads(TickWord(u.liquidity_change[2]),
                                     u.block_number - 1, fetchedLower[1])]>>)
    \o (IF fetchedUpper = None THEN <<>>
        ELSE <<[word_position |-> TickWord(u.liquidity_change[3]),
                block_number |-> u.block_number - 1,
                reads |-> ProviderReads(TickWord(u.liquidity_change[3]),
                                        u.block_number - 1, fetchedUpper[1])]>>)

CallRec(op, u, block, reading, raised, ret, published, fetchedLower, fetchedUpper) ==
    [op |-> op, update |-> u, block |-> block, reading |-> reading,
     raised |-> raised, ret |-> ret, published |-> published,
     fetchedLower |-> fetchedLower, fetchedUpper |-> fetchedUpper,
     fetches |-> UpdateFetches(u, fetchedLower, fetchedUpper),
     before |-> BoundaryView(u)]

Push(h, r) == <<r>> \o (IF Len(h) > 0 THEN <<h[1]>> ELSE <<>>)

-----------------------------------------------------------------------------
(* Construction, lines 96-107 and 189-253 *)

\* the constructor keeping the supplied words only
CompleteBitmap_AsGiven(given) == given

\* lines 195-219: the supplied words, completed with empty words from the
\* word of MIN_TICK to the word of MAX_TICK
CompleteBitmap(given) ==
    [w \in TickWord(MIN_TICK)..TickWord(MAX_TICK) |->
        IF w \in DOMAIN given THEN given[w] ELSE EmptyWord]

BitmapFrom(td, blk) ==
    [w \in {TickWord(t) : t \in DOMAIN td} |->
        [bitmap |-> {TickBit(t) : t \in {x \in DOMAIN td : TickWord(x) = w}},
         block |-> Some(blk)]]

InitPositions ==
    { NoPositions,
      [NoPositions EXCEPT ![<<-60, 60>>] = 1],
      [NoPositions EXCEPT ![<<-120, -60>>] = 1] }
InitTicks == {0, 60}

\* ghost: the dicts bm, td noted for every block of the archive `a` that has
\* no note yet, the notes of the blocks no longer archived dropped
MapsRecorded(g, a, bm, td) ==
    [b \in ArchiveKeys(a) |-> IF b \in DOMAIN g THEN g[b] ELSE [bm |-> bm, td |-> td]]

\* AllPools holds a pool another factory's manager registered at address 2
\* (registry/all_pools.py); pool objects are [object, address, factory]
OurFactory == "factory"
ForeignPools == [a \in {2} |-> [object |-> 0, address |-> 2, factory |-> "other"]]
\* a thread that is not inside get_pool
Idle == [pc |-> "idle", address |-> 0]

InitCommon ==
    /\ update_block = InitBlock
    /\ archive_states \in BOOLEAN
    /\ archive = IF archive_states
                 THEN <<[block |-> update_block, state |-> state]>> ELSE <<>>
    /\ faithful = TRUE
    /\ hist = <<>>
    /\ ncalls = 0
    /\ threads = [t \in Threads |-> [pc |-> "idle", update |-> NoUpdate]]
    /\ swap = None
    /\ archived_maps = MapsRecorded(EmptyDict, archive, tick_bitmap, tick_data)
    /\ failing_subscribers = {}
    /\ notified = None
    /\ fetching = None
    /\ simulating = None
    /\ connections = EmptyDict
    /\ default_chain_id = None
    /\ config_calls = <<>>
    /\ all_pools = ForeignPools
    /\ tracked_pools = EmptyDict
    /\ untracked_pools = {}
    /\ getters = [t \in Threads |-> Idle]
    /\ manager_log = [calls |-> 0, built |-> {}, returned |-> {}]

\* tick_bitmap and tick_data supplied: the maps are complete
InitNonSparse ==
    /\ sparse_liquidity_map = FALSE
    /\ \E pos \in InitPositions, t \in InitTicks :
          /\ minted = pos
          /\ tick_data = TickDataFrom(pos, InitBlock)
          /\ tick_bitmap = CompleteBitmap(BitmapFrom(tick_data, InitBlock))
          /\ state = [liquidity |-> ActiveLiquidity(pos, t),
                      sqrt_price_x96 |-> get_sqrt_ratio_at_tick(t),
                      tick |-> t]
    /\ InitCommon

\* neither supplied: the word of self.tick (still 0 at line 237) is fetched,
\* then liquidity, price and tick are read from the chain
InitSparse ==
    /\ sparse_liquidity_map = TRUE
    /\ minted = NoPositions
    /\ \E answer \in ProviderAnswers(TickWord(0)), t \in InitTicks :
          LET m == fetch_tick_data_at_word([bm |-> EmptyDict, td |-> EmptyDict],
                                           TickWord(0), InitBlock, answer)
          IN /\ tick_bitmap = m.bm
             /\ tick_data = m.td
             /\ state = [liquidity |-> 2,
                         sqrt_price_x96 |-> get_sqrt_ratio_at_tick(t),
                         tick |-> t]
    /\ InitCommon

Init == InitNonSparse \/ InitSparse

-----------------------------------------------------------------------------
(* Subscribers: _notify_subscribers delivers the message to every subscriber; *)
(* the ghost call record keeps the messages of the call.                      *)

Notify(message) == <<message>>

\* the delivery of one message: the subscribers whose notify() was called,
\* those that raised, and whether the failure reaches the caller of
\* _notify_subscribers.  A failing subscriber does not keep the message from
\* the others and the failure stays with the subscriber.
Deliver_StopAtFailure(failing) ==
    [delivered |-> IF failing = {} THEN Subscribers
                   ELSE {s \in Subscribers : \A f \in failing : s <= f},
     failed |-> {s \in failing : \A f \in failing : s <= f},
     raised |-> failing # {}]

Deliver(failing) ==
    [delivered |-> Subscribers, failed |-> failing, raised |-> FALSE]

\* the notification a call makes: the message, the pool's state, update_block
\* and archive at the moment _notify_subscribers is called, and the delivery
Notification(message, s, ub, a, d) ==
    Some([message |-> message, state |-> s, update_block |-> ub, archive |-> a,
          delivered |-> d.delivered, failed |-> d.failed, raised |-> d.raised])

-----------------------------------------------------------------------------
(* external_update(update), lines 841-986 *)

\* lines 906-927: the bitmap word of a boundary tick is missing in a sparse pool
MissingLower(u) ==
    /\ HasLiquidityChange(u)
    /\ sparse_liquidity_map
    /\ TickWord(u.liquidity_change[2]) \notin DOMAIN tick_bitmap
MissingUpper(u) ==
    /\ HasLiquidityChange(u)
    /\ sparse_liquidity_map
    /\ TickWord(u.liquidity_change[3]) \notin DOMAIN tick_bitmap
    /\ TickWord(u.liquidity_change[3]) # TickWord(u.liquidity_change[2])
NeedFetchLower(u) == ~IsStale(u, update_block) /\ MissingLower(u)
NeedFetchUpper(u) == ~IsStale(u, update_block) /\ MissingUpper(u)

Unchanged ==
    /\ UNCHANGED <<state, tick_bitmap, tick_data, update_block, archive, minted, faithful,
                   archived_maps>>
    /\ notified' = None

\* lines 978-984: commit of a changed state
CommitArchive_Skip(a, b, s) == a

CommitArchive_Always(a, b, s) == ArchivePut(a, b, s)

CommitArchive(a, b, s) == IF archive_states THEN ArchivePut(a, b, s) ELSE a

\* lines 865-869: the staleness check, made before the lock is taken
ExternalUpdateRejected(u) ==
    /\ Unchanged
    /\ hist' = Push(hist, CallRec("external_update", u, -1, NoReading,
                                   "ExternalUpdateError", FALSE, <<>>, None, None))

\* lines 871-986: the body, run under self._state_lock
ExternalUpdateLocked(u, answerLower, answerUpper) ==
    LET s1 == ApplyFields(state, u)
        s2 == AdjustInRange(s1, u)
        m == ApplyLiquidityChange([bm |-> tick_bitmap, td |-> tick_data],
                                  u, answerLower, answerUpper)
        updated_state == s1 # state \/ HasLiquidityChange(u)
        fL == IF MissingLower(u) THEN Some(answerLower) ELSE None
        fU == IF MissingUpper(u) THEN Some(answerUpper) ELSE None
        d == Deliver(failing_subscribers)
    IN IF updated_state
       THEN /\ state' = s2
            /\ tick_bitmap' = m.bm
            /\ tick_data' = m.td
            /\ archive' = CommitArchive(archive, u.block_number, s2)
            /\ archived_maps' = MapsRecorded(Del(archived_maps, u.block_number),
                                              archive', m.bm, m.td)
            /\ notified' = Notification(s2, s2, update_block, archive', d)
            /\ update_block' = IF d.raised THEN update_block ELSE u.block_number
            /\ minted' = IF HasLiquidityChange(u)
                          THEN [minted EXCEPT ![<<u.liquidity_change[2],
                                                  u.liquidity_change[3]>>] =
                                               @ + u.liquidity_change[1]]
                          ELSE minted
            /\ faithful' = (faithful /\ (HasLiquidityChange(u) =>
                              minted'[<<u.liquidity_change[2],
                                        u.liquidity_change[3]>>] >= 0))
            /\ hist' = Push(hist, CallRec("external_update", u, -1, NoReading,
                                           IF d.raised THEN "SubscriberError" ELSE "",
                                           TRUE, Notify(s2), fL, fU))
       ELSE /\ Unchanged
            /\ hist' = Push(hist, CallRec("external_update", u, -1, NoReading,
                                           "", FALSE, <<>>, fL, fU))

\* one call by the only thread using the pool
ExternalUpdate(u, answerLower, answerUpper) ==
    /\ ncalls' = ncalls + 1
    /\ swap' = None
    /\ UNCHANGED <<archive_states, sparse_liquidity_map, threads, failing_subscribers, fetching,
                   simulating, config_vars, manager_vars>>
    /\ IF IsStale(u, update_block)
       THEN ExternalUpdateRejected(u)
       ELSE ExternalUpdateLocked(u, answerLower, answerUpper)

\* lines 871-920 when the provider fails in _fetch_tick_data_at_word
\* (lines 549-560): the exception leaves external_update from inside the loop
\* over the two boundary ticks.  The direct fields (lines 874-887) and the
\* in-range liquidity (lines 892-896) are written by then, and so is the lower
\* tick when it is the upper tick's word that is fetched; lines 978-984 are
\* not reached.
ExternalUpdateFetchFails(u, answerLower) ==
    LET s1 == ApplyFields(state, u)
        s2 == AdjustInRange(s1, u)
        m == [bm |-> tick_bitmap, td |-> tick_data]
        mL == IF MissingLower(u) THEN m
              ELSE UpdateTick(m, u.liquidity_change[2], u.liquidity_change[1],
                              u.liquidity_change[2], u.block_number, answerLower)
    IN /\ ~IsStale(u, update_block)
       /\ MissingLower(u) \/ MissingUpper(u)
       /\ ncalls' = ncalls + 1
       /\ swap' = None
       /\ state' = s2
       /\ tick_bitmap' = mL.bm
       /\ tick_data' = mL.td
       /\ notified' = None
       /\ hist' = Push(hist, CallRec("external_update", u, -1, NoReading,
                                      "ProviderError", FALSE, <<>>, None, None))
       /\ UNCHANGED <<update_block, archive, archived_maps, minted, faithful,
                      archive_states, sparse_liquidity_map, threads,
                      failing_subscribers, fetching, simulating, config_vars, manager_vars>>

\* a call by thread t of several: the staleness test of lines 865-869 is one step ...
ExternalUpdateCheck(t, u) ==
    /\ threads[t].pc = "idle"
    /\ swap' = None
    /\ UNCHANGED <<archive_states, sparse_liquidity_map, failing_subscribers, fetching,
                   simulating, config_vars, manager_vars>>
    /\ IF IsStale(u, update_block)
       THEN /\ ncalls' = ncalls + 1
            /\ ExternalUpdateRejected(u)
            /\ UNCHANGED threads
       ELSE /\ threads' = [threads EXCEPT ![t] = [pc |-> "passed", update |-> u]]
            /\ Unchanged
            /\ UNCHANGED <<hist, ncalls>>

\* ... and the body under the lock (lines 871-986) another, taken when the
\* lock is granted
ExternalUpdateBody(t, answerLower, answerUpper) ==
    /\ threads[t].pc = "passed"
    /\ swap' = None
    /\ ncalls' = ncalls + 1
    /\ threads' = [threads EXCEPT ![t] = [pc |-> "idle", update |-> NoUpdate]]
    /\ UNCHANGED <<archive_states, sparse_liquidity_map, failing_subscribers, fetching,
                   simulating, config_vars, manager_vars>>
    /\ ExternalUpdateLocked(threads[t].update, answerLower, answerUpper)

-----------------------------------------------------------------------------
(* auto_update(block_number), lines 681-735; `reading` is what the provider *)
(* returns for slot0() and liquidity() at block_number                      *)

ApplyReading_PriceOnly(s, reading) ==
    IF s.sqrt_price_x96 # reading.sqrt_price_x96
    THEN [s EXCEPT !.sqrt_price_x96 = reading.sqrt_price_x96] ELSE s

ApplyReading(s, reading) ==
    LET s1 == IF s.sqrt_price_x96 # reading.sqrt_price_x96
              THEN [s EXCEPT !.sqrt_price_x96 = reading.sqrt_price_x96] ELSE s
        s2 == IF s1.tick # reading.tick THEN [s1 EXCEPT !.tick = reading.tick] ELSE s1
        s3 == IF s2.liquidity # reading.liquidity
              THEN [s2 EXCEPT !.liquidity = reading.liquidity] ELSE s2
    IN s3

AutoUpdate(block_number, reading) ==
    LET s3 == ApplyReading(state, reading)
        updated == s3 # state
        d == Deliver(failing_subscribers)
        archived == updated /\ ~d.raised
    IN /\ ncalls' = ncalls + 1
       /\ swap' = None
       /\ state' = s3
       /\ update_block' = block_number
       /\ notified' = IF updated THEN Notification(s3, s3, block_number, archive, d)
                      ELSE None
       /\ archive' = IF archived THEN CommitArchive(archive, block_number, s3) ELSE archive
       /\ archived_maps' = IF archived
                            THEN MapsRecorded(Del(archived_maps, block_number), archive',
                                              tick_bitmap, tick_data)
                            ELSE archived_maps
       /\ UNCHANGED <<tick_bitmap, tick_data, minted, faithful, archive_states,
                      sparse_liquidity_map, threads, failing_subscribers, fetching,
                      simulating, config_vars, manager_vars>>
       /\ hist' = Push(hist, CallRec("auto_update", NoUpdate, block_number, reading,
                                      IF updated /\ d.raised THEN "SubscriberError" ELSE "",
                                      updated, IF updated THEN Notify(s3) ELSE <<>>,
                                      None, None))

-----------------------------------------------------------------------------
(* The four public simulations: simulate_exact_input_swap and                *)
(* simulate_exact_output_swap (lines 1182-1285), which take an optional      *)
(* sqrt_price_limit_x96 (limit = None when it is left out), and              *)
(* calculate_tokens_out_from_tokens_in and calculate_tokens_in_from_tokens_out *)
(* (lines 737-839), which always use the default limit.                      *)
(* override_state is None or <<[state, maps]>>, maps being None for a        *)
(* PoolState without tick_bitmap and tick_data.                              *)

SimulateOps == {"simulate_exact_input_swap", "simulate_exact_output_swap"}
CalculateOps == {"calculate_tokens_out_from_tokens_in", "calculate_tokens_in_from_tokens_out"}
ExactInputOps == {"simulate_exact_input_swap", "calculate_tokens_out_from_tokens_in"}
ExactOutputOps == {"simulate_exact_output_swap", "calculate_tokens_in_from_tokens_out"}

\* the simulate_* call that hands _calculate_swap the non-zero amount_specified
SimulateOpFor(amount_specified) ==
    IF amount_specified > 0 THEN "simulate_exact_input_swap" ELSE "simulate_exact_output_swap"
Magnitude(amount_specified) ==
    IF amount_specified >= 0 THEN amount_specified ELSE -amount_specified

DefaultLimit(zero_for_one) ==
    IF zero_for_one THEN MIN_SQRT_RATIO + 1 ELSE MAX_SQRT_RATIO - 1

\* the reasons _calculate_swap raises EVMRevertError with
EVMReverts == {"AS", "SPL", "LS"}

\* the amount the result pays out to the caller
PaidOut(zero_for_one, result) == IF zero_for_one THEN -result.amount1 ELSE -result.amount0
\* the amount the result takes from the caller
PaidIn(zero_for_one, result) == IF zero_for_one THEN result.amount0 ELSE result.amount1

\* lines 829-837: only calculate_tokens_in_from_tokens_out compares the
\* amount paid out with the amount asked for
InsufficientCheck(op, zero_for_one, token_quantity, result) ==
    /\ op = "calculate_tokens_in_from_tokens_out"
    /\ PaidOut(zero_for_one, result) < token_quantity

\* what the caller of the public method gets: the exception raised ("" when
\* the method returns), the two deltas of a simulate_* result and the number
\* a calculate_* call returns
Surfaced(op, zero_for_one, token_quantity, result) ==
    LET Raised(why) == [raised |-> why, amount0_delta |-> 0, amount1_delta |-> 0, value |-> 0]
    IN IF result.reverted \in EVMReverts THEN Raised("LiquidityPoolError")
       ELSE IF result.reverted # "" THEN Raised(result.reverted)
       ELSE IF InsufficientCheck(op, zero_for_one, token_quantity, result)
       THEN Raised("InsufficientAmountOutError")
       ELSE [raised |-> "",
             amount0_delta |-> IF op \in SimulateOps THEN result.amount0 ELSE 0,
             amount1_delta |-> IF op \in SimulateOps THEN result.amount1 ELSE 0,
             value |-> IF op = "calculate_tokens_out_from_tokens_in"
                       THEN PaidOut(zero_for_one, result)
                       ELSE IF op = "calculate_tokens_in_from_tokens_out"
                       THEN PaidIn(zero_for_one, result)
                       ELSE 0]

\* lines 1195-1196, 1247-1248: simulate_* refuse a zero quantity themselves;
\* otherwise the call of _calculate_swap the method makes
SwapOf_Unsigned(op, zero_for_one, token_quantity, limit, override_state, answers, failing) ==
    IF op \in SimulateOps /\ token_quantity = 0
    THEN Reverted("ValueError", [bm |-> tick_bitmap, td |-> tick_data])
    ELSE calculate_swap(IF override_state = None THEN state ELSE override_state[1].state,
                        [bm |-> tick_bitmap, td |-> tick_data],
                        IF override_state = None THEN None ELSE override_state[1].maps,
                        zero_for_one,
                        token_quantity,
                        IF op \in SimulateOps /\ limit # None
                        THEN limit[1] ELSE DefaultLimit(zero_for_one),
                        answers, failing)

SwapOf(op, zero_for_one, token_quantity, limit, override_state, answers, failing) ==
    IF op \in SimulateOps /\ token_quantity = 0
    THEN Reverted("ValueError", [bm |-> tick_bitmap, td |-> tick_data])
    ELSE calculate_swap(IF override_state = None THEN state ELSE override_state[1].state,
                        [bm |-> tick_bitmap, td |-> tick_data],
                        IF override_state = None THEN None ELSE override_state[1].maps,
                        zero_for_one,
                        IF op \in ExactInputOps THEN token_quantity ELSE -token_quantity,
                        IF op \in SimulateOps /\ limit # None
                        THEN limit[1] ELSE DefaultLimit(zero_for_one),
                        answers, failing)

Simulate(op, zero_for_one, token_quantity, limit, override_state, answers, failing) ==
    \E result \in
        { SwapOf(op, zero_for_one, token_quantity, limit, override_state, answers, failing) } :
        /\ swap' = Some([op |-> op,
                         zero_for_one |-> zero_for_one,
                         amount_specified |-> IF op \in ExactInputOps
                                              THEN token_quantity ELSE -token_quantity,
                         sqrt_price_limit_x96 |-> IF op \in SimulateOps THEN limit ELSE None,
                         override_state |-> override_state,
                         result |-> result,
                         outcome |-> Surfaced(op, zero_for_one, token_quantity, result),
                         nth |-> IF swap = None THEN 1 ELSE swap[1].nth + 1])
        /\ tick_bitmap' = result.m.bm
        /\ tick_data' = result.m.td
        /\ UNCHANGED <<state, update_block, archive, archive_states,
                       sparse_liquidity_map, minted, faithful, hist, ncalls, threads,
                       archived_maps, failing_subscribers, notified, fetching,
                       simulating, config_vars, manager_vars>>

-----------------------------------------------------------------------------
(* The archive: discard_states_before_block and restore_state_before_block *)

\* sorted(list(archive.keys())) and bisect_left on it (the keys are distinct)
RECURSIVE SortedSeq(_)
SortedSeq(S) ==
    IF S = {} THEN <<>>
    ELSE LET lo == CHOOSE x \in S : \A y \in S : x <= y
         IN <<lo>> \o SortedSeq(S \ {lo})
bisect_left(known_blocks, block) ==
    Cardinality({i \in DOMAIN known_blocks : known_blocks[i] < block})

\* `del archive[known_block]` for every block of a slice of known_blocks
DeleteBlocks(a, blocks) == SelectSeq(a, LAMBDA e : e.block \notin blocks)
SeqSlice(q, from, to) == {q[i] : i \in {j \in DOMAIN q : from <= j /\ j <= to}}

\* line 1176: list(archive.items())[-1]
LastItem(a) == a[Len(a)]

\* lines 1136-1137
DiscardSlice_Inclusive(known_blocks, block_index) ==
    SeqSlice(known_blocks, 1, block_index + 1)

DiscardSlice(known_blocks, block_index) == SeqSlice(known_blocks, 1, block_index)

\* lines 1173-1174
RestoreSlice(known_blocks, block_index) ==
    SeqSlice(known_blocks, block_index + 1, Len(known_blocks))

\* lines 1130-1134
DiscardCase_NoRaise(known_blocks, block_index) ==
    IF block_index = 0 THEN "return" ELSE "discard"

DiscardCase(known_blocks, block_index) ==
    IF block_index = 0 THEN "return"
    ELSE IF block_index = Len(known_blocks) THEN "raise"
    ELSE "discard"

\* lines 1165-1170
RestoreCase_NoEarlyReturn(known_blocks, block_index) ==
    IF block_index = 0 THEN "raise" ELSE "restore"

RestoreCase(known_blocks, block_index) ==
    IF block_index = 0 THEN "raise"
    ELSE IF block_index = Len(known_blocks) THEN "return"
    ELSE "restore"

\* lines 1161-1176 on the archive `a`: whether restore_state_before_block(block)
\* raises, returns early or restores, and the entry it restores
RestoreOutcome(a, block) ==
    LET known_blocks == SortedSeq(ArchiveKeys(a))
        block_index == bisect_left(known_blocks, block)
        kept == DeleteBlocks(a, RestoreSlice(known_blocks, block_index))
    IN IF RestoreCase(known_blocks, block_index) = "restore"
       THEN [case |-> "restore", restored |-> Some(LastItem(kept))]
       ELSE [case |-> RestoreCase(known_blocks, block_index), restored |-> None]

DiscardStatesBeforeBlock(block) ==
    LET known_blocks == SortedSeq(ArchiveKeys(archive))
        block_index == bisect_left(known_blocks, block)
        Call(raised) == CallRec("discard_states_before_block", NoUpdate, block, NoReading,
                                raised, FALSE, <<>>, None, None)
    IN /\ ncalls' = ncalls + 1
       /\ swap' = None
       /\ UNCHANGED <<state, tick_bitmap, tick_data, update_block, minted, faithful,
                      archive_states, sparse_liquidity_map, threads, failing_subscribers, fetching,
                      simulating, config_vars, manager_vars>>
       /\ notified' = None
       /\ IF ~archive_states
          THEN /\ archive' = archive
               /\ hist' = Push(hist, Call("NoPoolStateAvailable"))
          ELSE IF DiscardCase(known_blocks, block_index) = "return"
          THEN /\ archive' = archive
               /\ hist' = Push(hist, Call(""))
          ELSE IF DiscardCase(known_blocks, block_index) = "raise"
          THEN /\ archive' = archive
               /\ hist' = Push(hist, Call("NoPoolStateAvailable"))
          ELSE /\ archive' = DeleteBlocks(archive, DiscardSlice(known_blocks, block_index))
               /\ hist' = Push(hist, Call(""))
       /\ archived_maps' = MapsRecorded(archived_maps, archive', tick_bitmap, tick_data)

RestoreStateBeforeBlock(block) ==
    LET known_blocks == SortedSeq(ArchiveKeys(archive))
        block_index == bisect_left(known_blocks, block)
        kept == DeleteBlocks(archive, RestoreSlice(known_blocks, block_index))
        Call(raised, published) ==
            CallRec("restore_state_before_block", NoUpdate, block, NoReading,
                    raised, FALSE, published, None, None)
        d == Deliver(failing_subscribers)
    IN /\ ncalls' = ncalls + 1
       /\ swap' = None
       /\ UNCHANGED <<tick_bitmap, tick_data, minted, faithful, archive_states,
                      sparse_liquidity_map, threads, failing_subscribers, fetching,
                      simulating, config_vars, manager_vars>>
       /\ IF ~archive_states \/ RestoreCase(known_blocks, block_index) = "raise"
          THEN /\ UNCHANGED <<state, update_block, archive>>
               /\ notified' = None
               /\ hist' = Push(hist, Call("NoPoolStateAvailable", <<>>))
          ELSE IF RestoreCase(known_blocks, block_index) = "return"
          THEN /\ UNCHANGED <<state, update_block, archive>>
               /\ notified' = None
               /\ hist' = Push(hist, Call("", <<>>))
          ELSE /\ archive' = kept
               /\ update_block' = LastItem(kept).block
               /\ state' = LastItem(kept).state
               /\ notified' = Notification(LastItem(kept).state, LastItem(kept).state,
                                           LastItem(kept).block, kept, d)
               /\ hist' = Push(hist, Call(IF d.raised THEN "SubscriberError" ELSE "",
                                          Notify(LastItem(kept).state)))
       /\ archived_maps' = MapsRecorded(archived_maps, archive', tick_bitmap, tick_data)

-----------------------------------------------------------------------------
(* Inputs *)

Blocks == 0..MaxBlock
NearBlocks == {b \in Blocks : update_block - 1 <= b /\ b <= update_block + 1}

Update(b, f, lc) ==
    [block_number |-> b, tick |-> f[1], liquidity |-> f[2],
     sqrt_price_x96 |-> f[3], liquidity_change |-> lc]

\* (tick, liquidity, sqrt_price_x96) of an update
FieldChoices ==
    { <<None, None, None>>,
      <<Some(60), None, None>>,
      <<Some(-60), Some(5), Some(get_sqrt_ratio_at_tick(-60))>> }

ChangeChoices ==
    { NoChange, <<0, -60, 60>>, <<1, -60, 60>>, <<-1, -60, 60>> }

AnswersLower(u) ==
    IF NeedFetchLower(u) THEN ProviderAnswers(TickWord(u.liquidity_change[2]))
    ELSE {EmptyDict}
AnswersUpper(u) ==
    IF NeedFetchUpper(u) THEN ProviderAnswers(TickWord(u.liquidity_change[3]))
    ELSE {EmptyDict}

-----------------------------------------------------------------------------
(* SpecUpdate: any external updates, MaxCalls calls deep *)

UpdateCall ==
    /\ ncalls < MaxCalls
    /\ \E b \in NearBlocks, f \in FieldChoices, lc \in ChangeChoices :
          \E aL \in AnswersLower(Update(b, f, lc)), aU \in AnswersUpper(Update(b, f, lc)) :
             ExternalUpdate(Update(b, f, lc), aL, aU)

NextUpdate == UpdateCall

SpecUpdate == Init /\ [][NextUpdate]_vars

-----------------------------------------------------------------------------
(* Spec: updates, refreshes, pruning and rollback, MaxArchiveCalls calls deep *)

\* what slot0() and liquidity() return: the values held, or a moved price
Readings ==
    { [liquidity |-> state.liquidity, sqrt_price_x96 |-> state.sqrt_price_x96,
       tick |-> state.tick],
      [liquidity |-> 3, sqrt_price_x96 |-> get_sqrt_ratio_at_tick(-120), tick |-> -120] }

ExternalUpdateCall ==
    /\ ncalls < MaxArchiveCalls
    /\ \E b \in NearBlocks, f \in FieldChoices :
          ExternalUpdate(Update(b, f, NoChange), EmptyDict, EmptyDict)

AutoUpdateCall ==
    /\ ncalls < MaxArchiveCalls
    /\ \E b \in Blocks, r \in Readings : AutoUpdate(b, r)

DiscardCall ==
    /\ ncalls < MaxArchiveCalls
    /\ \E b \in Blocks : DiscardStatesBeforeBlock(b)

RestoreCall ==
    /\ ncalls < MaxArchiveCalls
    /\ \E b \in Blocks : RestoreStateBeforeBlock(b)

Next == ExternalUpdateCall \/ AutoUpdateCall \/ DiscardCall \/ RestoreCall

Spec == Init /\ [][Next]_vars

-----------------------------------------------------------------------------
(* SpecReorg: liquidity events, refreshes and rollbacks on the same pool,    *)
(* MaxArchiveCalls calls deep                                                *)

LiquidityEvents == { <<1, -60, 60>>, <<-1, -60, 60>> }

LiquidityEventCall ==
    /\ ncalls < MaxArchiveCalls
    /\ \E b \in {x \in Blocks : update_block <= x /\ x <= update_block + 1},
          lc \in LiquidityEvents :
          \E aL \in AnswersLower(Update(b, <<None, None, None>>, lc)),
             aU \in AnswersUpper(Update(b, <<None, None, None>>, lc)) :
             ExternalUpdate(Update(b, <<None, None, None>>, lc), aL, aU)

NextReorg == LiquidityEventCall \/ AutoUpdateCall \/ RestoreCall

SpecReorg == Init /\ [][NextReorg]_vars

-----------------------------------------------------------------------------
(* SpecConc: the threads of Threads call external_update on the same pool,   *)
(* MaxConcCalls calls in all; the scheduler interleaves their steps          *)

InFlight == Cardinality({t \in Threads : threads[t].pc = "passed"})

CheckStep ==
    /\ ncalls + InFlight < MaxConcCalls
    /\ \E t \in Threads, b \in Blocks, f \in FieldChoices, lc \in {NoChange, <<1, -60, 60>>} :
          ExternalUpdateCheck(t, Update(b, f, lc))

BodyStep ==
    \E t \in Threads :
       \E aL \in (IF MissingLower(threads[t].update)
                  THEN ProviderAnswers(TickWord(threads[t].update.liquidity_change[2]))
                  ELSE {EmptyDict}),
          aU \in (IF MissingUpper(threads[t].update)
                  THEN ProviderAnswers(TickWord(threads[t].update.liquidity_change[3]))
                  ELSE {EmptyDict}) :
          ExternalUpdateBody(t, aL, aU)

NextConc == CheckStep \/ BodyStep

SpecConc == Init /\ [][NextConc]_vars

-----------------------------------------------------------------------------
(* SpecLiq: a pool built from a complete snapshot that agrees with the chain *)
(* receives Mint and Burn events only (a Burn never exceeds what is minted   *)
(* on its range), MaxLiqCalls in all, and is asked for swap simulations      *)

LiqPositions ==
    { NoPositions,
      [NoPositions EXCEPT ![<<-60, 60>>] = 1],
      [NoPositions EXCEPT ![<<-120, -60>>] = 1, ![<<-60, 60>>] = 2] }

\* (tick, sqrt_price_x96) of slot0: on a tick, between two ticks, and just
\* below a tick crossed downwards
LiqSlots ==
    { <<0, get_sqrt_ratio_at_tick(0)>>,
      <<-1, get_sqrt_ratio_at_tick(0)>>,
      <<30, get_sqrt_ratio_at_tick(30) + 1>>,
      <<60, get_sqrt_ratio_at_tick(60)>>,
      <<-90, get_sqrt_ratio_at_tick(-90)>> }

InitLiq ==
    /\ sparse_liquidity_map = FALSE
    /\ \E pos \in LiqPositions, slot \in LiqSlots :
          /\ minted = pos
          /\ tick_data = TickDataFrom(pos, InitBlock)
          /\ tick_bitmap = CompleteBitmap(BitmapFrom(tick_data, InitBlock))
          /\ state = [liquidity |-> ActiveLiquidity(pos, slot[1]),
                      sqrt_price_x96 |-> slot[2],
                      tick |-> slot[1]]
    /\ InitCommon

LiqRanges == { <<-60, 60>>, <<-120, -60>>, <<0, 120>> }

MintOrBurn ==
    /\ ncalls < MaxLiqCalls
    /\ \E b \in {IF update_block < MaxBlock THEN update_block + 1 ELSE MaxBlock},
          r \in LiqRanges, delta \in {1, -1} :
          /\ minted[r] + delta >= 0
          /\ ExternalUpdate(Update(b, <<None, None, None>>, <<delta, r[1], r[2]>>),
                            EmptyDict, EmptyDict)

SwapAmounts == {1, 150, 2000, -100}
\* sqrt_price_limit_x96: left out (with the amounts that run to the end of
\* the liquidity), inside the positions, and on an initialized tick
SwapLimits(zero_for_one, amount) ==
    (IF amount \in {2000, -100} THEN {None} ELSE {})
    \cup { Some(get_sqrt_ratio_at_tick(IF zero_for_one THEN -150 ELSE 150)),
           Some(get_sqrt_ratio_at_tick(IF zero_for_one THEN -60 ELSE 60)) }

\* a simulation reads the pool and writes nothing, so one simulation is
\* explored on each state of the pool
SimulateSwap ==
    /\ swap = None
    /\ \E zero_for_one \in BOOLEAN, amount \in SwapAmounts :
          \E limit \in SwapLimits(zero_for_one, amount) :
             Simulate(SimulateOpFor(amount), zero_for_one, Magnitude(amount), limit,
                      None, EmptyDict, {})

NextLiq == MintOrBurn \/ SimulateSwap

SpecLiq == InitLiq /\ [][NextLiq]_vars

-----------------------------------------------------------------------------
(* SpecSim: MaxSims swap simulations in a row on a sparse or complete pool,   *)
(* on the live state or on an override state                                 *)

\* override_state: none; a PoolState without maps, as the simulations return
\* in final_state; a copy of the live state with dicts of its own
NoOverride == None
OverrideWithoutMaps ==
    Some([state |-> [liquidity |-> 1, sqrt_price_x96 |-> get_sqrt_ratio_at_tick(-60),
                     tick |-> -60],
          maps |-> None])
OverrideCopy == Some([state |-> state, maps |-> Some([bm |-> tick_bitmap, td |-> tick_data])])

\* what the provider holds for the words the pool has not loaded
MissingWords == {w \in {-1, 0} : w \notin DOMAIN tick_bitmap}
SimAnswers ==
    {f \in [MissingWords -> UNION {ProviderAnswers(w) : w \in {-1, 0}}] :
        \A w \in MissingWords : f[w] \in ProviderAnswers(w)}

\* <<override_state, the words the provider fails on>>
SimSettings ==
    { <<NoOverride, {}>>, <<OverrideWithoutMaps, {}>>, <<OverrideCopy, {}>> }
    \cup (IF MissingWords # {} THEN { <<NoOverride, MissingWords>> } ELSE {})

SimAmounts == {150, -100}
SimLimits(zero_for_one) ==
    { None, Some(get_sqrt_ratio_at_tick(IF zero_for_one THEN -150 ELSE 150)) }

SimulateCall ==
    /\ IF swap = None THEN TRUE ELSE swap[1].nth < MaxSims
    /\ \E zero_for_one \in BOOLEAN, amount \in SimAmounts, setting \in SimSettings,
          answers \in SimAnswers :
          \E limit \in SimLimits(zero_for_one) :
             Simulate(SimulateOpFor(amount), zero_for_one, Magnitude(amount), limit,
                      setting[1], answers, setting[2])

NextSim == SimulateCall

SpecSim == Init /\ [][NextSim]_vars

-----------------------------------------------------------------------------
(* SpecQuote: one call of one of the four public simulations, with valid and *)
(* invalid requests, on a pool built from a complete snapshot                 *)

QuotePositions ==
    LiqPositions \cup { [NoPositions EXCEPT ![<<-60, 60>>] = 3] }

InitQuote ==
    /\ sparse_liquidity_map = FALSE
    /\ \E pos \in QuotePositions, slot \in LiqSlots :
          /\ minted = pos
          /\ tick_data = TickDataFrom(pos, InitBlock)
          /\ tick_bitmap = CompleteBitmap(BitmapFrom(tick_data, InitBlock))
          /\ state = [liquidity |-> ActiveLiquidity(pos, slot[1]),
                      sqrt_price_x96 |-> slot[2],
                      tick |-> slot[1]]
    /\ InitCommon

\* token_in_quantity / token_out_quantity
QuoteQuantities == {0, 1, 5, 60, 150, 2000}

\* sqrt_price_limit_x96 of a simulate_* call: left out; inside the range the
\* price may move in; the current price itself; on the wrong side of the
\* current price; the global bound itself
QuoteLimits(zero_for_one, price) ==
    { None,
      Some(get_sqrt_ratio_at_tick(IF zero_for_one THEN -150 ELSE 150)),
      Some(price),
      Some(IF zero_for_one THEN price + 1 ELSE price - 1),
      Some(IF zero_for_one THEN MIN_SQRT_RATIO ELSE MAX_SQRT_RATIO) }

QuoteOverrides == { NoOverride, OverrideWithoutMaps }

QuoteCall ==
    /\ swap = None
    /\ \E op \in SimulateOps \cup CalculateOps, zero_for_one \in BOOLEAN,
          token_quantity \in QuoteQuantities, o \in QuoteOverrides :
          \E limit \in (IF op \in SimulateOps
                        THEN QuoteLimits(zero_for_one,
                                         IF o = None THEN state.sqrt_price_x96
                                         ELSE o[1].state.sqrt_price_x96)
                        ELSE {None}) :
             Simulate(op, zero_for_one, token_quantity, limit, o, EmptyDict, {})

NextQuote == QuoteCall

SpecQuote == InitQuote /\ [][NextQuote]_vars

-----------------------------------------------------------------------------
(* SpecNotify: updates, refreshes and rollbacks of a pool some of whose      *)
(* subscribers fail while being notified, MaxNotifyCalls calls deep          *)

\* some subscribers start to fail, before the first call
SubscriberFails ==
    /\ ncalls = 0
    /\ failing_subscribers = {}
    /\ \E failing \in SUBSET Subscribers \ {{}} : failing_subscribers' = failing
    /\ UNCHANGED <<state, tick_bitmap, tick_data, update_block, archive, archive_states,
                   sparse_liquidity_map, minted, faithful, hist, ncalls, threads, swap,
                   archived_maps, notified, fetching, simulating, config_vars, manager_vars>>

NotifyingUpdateCall ==
    /\ ncalls < MaxNotifyCalls
    /\ \E b \in NearBlocks, f \in FieldChoices, lc \in {NoChange, <<1, -60, 60>>} :
          \E aL \in AnswersLower(Update(b, f, lc)), aU \in AnswersUpper(Update(b, f, lc)) :
             ExternalUpdate(Update(b, f, lc), aL, aU)

NotifyingRefreshCall ==
    /\ ncalls < MaxNotifyCalls
    /\ \E b \in Blocks, r \in Readings : AutoUpdate(b, r)

NotifyingRestoreCall ==
    /\ ncalls < MaxNotifyCalls
    /\ \E b \in Blocks : RestoreStateBeforeBlock(b)

NextNotify ==
    SubscriberFails \/ NotifyingUpdateCall \/ NotifyingRefreshCall \/ NotifyingRestoreCall

SpecNotify == Init /\ [][NextNotify]_vars

-----------------------------------------------------------------------------

(* SpecRace: a simulation on the live state, which takes no lock, runs while *)
(* another thread calls external_update.  The only statements of a           *)
(* simulation that touch the pool are those of _fetch_tick_data_at_word:     *)
(* the provider reads of lines 549-560 are one step and the stores of lines  *)
(* 562-571 another, and an external_update, which holds the lock from its    *)
(* staleness test on, can run between the two.                               *)

\* the word the loop of lines 381-459 finds missing first, or None
FirstMissingWord(zero_for_one, amount_specified) ==
    CHOOSE word \in
        { IF result.reverted = "ProviderError"
          THEN Some(result.trace[Len(result.trace)].word) ELSE None :
            result \in { calculate_swap(state, [bm |-> tick_bitmap, td |-> tick_data], None,
                                        zero_for_one, amount_specified,
                                        DefaultLimit(zero_for_one), EmptyDict, {-1, 0}) } } : TRUE

\* lines 395-404 and 549-560: the simulation finds a word missing and reads
\* it from the provider at update_block
SimulationReads ==
    /\ fetching = None
    /\ \E zero_for_one \in BOOLEAN, amount_specified \in SimAmounts :
          \E missing \in {FirstMissingWord(zero_for_one, amount_specified)} :
             /\ missing # None
             /\ \E answer \in ProviderAnswers(missing[1]) :
                   fetching' = Some([word_position |-> missing[1],
                                     block_number |-> update_block,
                                     answer |-> answer,
                                     reads |-> ProviderReads(missing[1], update_block,
                                                             answer)])
    /\ UNCHANGED <<state, tick_bitmap, tick_data, update_block, archive, archive_states,
                   sparse_liquidity_map, minted, faithful, hist, ncalls, threads, swap,
                   archived_maps, failing_subscribers, notified, simulating,
                   config_vars, manager_vars>>

\* lines 562-571: the simulation stores what it read
SimulationStores ==
    /\ fetching # None
    /\ \E m \in { fetch_tick_data_at_word([bm |-> tick_bitmap, td |-> tick_data],
                                          fetching[1].word_position,
                                          fetching[1].block_number,
                                          fetching[1].answer) } :
          /\ tick_bitmap' = m.bm
          /\ tick_data' = m.td
    /\ fetching' = None
    /\ UNCHANGED <<state, update_block, archive, archive_states, sparse_liquidity_map,
                   minted, faithful, hist, ncalls, threads, swap, archived_maps,
                   failing_subscribers, notified, simulating, config_vars, manager_vars>>

\* a liquidity event applied by the other thread
ConcurrentUpdate ==
    /\ ncalls < MaxRaceCalls
    /\ \E b \in {x \in Blocks : update_block <= x /\ x <= update_block + 1},
          lc \in LiquidityEvents :
          \E aL \in AnswersLower(Update(b, <<None, None, None>>, lc)),
             aU \in AnswersUpper(Update(b, <<None, None, None>>, lc)) :
             ExternalUpdate(Update(b, <<None, None, None>>, lc), aL, aU)

NextRace == SimulationReads \/ SimulationStores \/ ConcurrentUpdate

SpecRace == Init /\ [][NextRace]_vars

-----------------------------------------------------------------------------

(* SpecBuilt: sparse pools constructed while the chain's tick lies in the    *)
(* word of tick 0 or in the word below it, then simulations                  *)

BuildTicks == {-60, 0, 60}

\* lines 235-247: the word of self.tick is fetched at update_block while
\* self.tick still holds the 0 of line 99; liquidity, price and tick are read
\* from the chain afterwards
InitBuilt ==
    /\ sparse_liquidity_map = TRUE
    /\ minted = NoPositions
    /\ \E answer \in ProviderAnswers(TickWord(0)), t \in BuildTicks :
          LET m == fetch_tick_data_at_word([bm |-> EmptyDict, td |-> EmptyDict],
                                           TickWord(0), InitBlock, answer)
          IN /\ tick_bitmap = m.bm
             /\ tick_data = m.td
             /\ state = [liquidity |-> 2,
                         sqrt_price_x96 |-> get_sqrt_ratio_at_tick(t),
                         tick |-> t]
    /\ InitCommon

NextBuilt == SimulateCall

SpecBuilt == InitBuilt /\ [][NextBuilt]_vars

-----------------------------------------------------------------------------

(* SpecRefresh: refreshes that find any of the three values moved,           *)
(* MaxRefreshCalls calls deep                                                *)

\* what slot0() and liquidity() return at the block: each value either the
\* one held or another
RefreshReadings ==
    { [liquidity |-> l, sqrt_price_x96 |-> p, tick |-> t] :
        l \in {state.liquidity, 3},
        p \in {state.sqrt_price_x96, get_sqrt_ratio_at_tick(-120)},
        t \in {state.tick, -120} }

RefreshCall ==
    /\ ncalls < MaxRefreshCalls
    /\ \E b \in Blocks, r \in RefreshReadings : AutoUpdate(b, r)

NextRefresh == RefreshCall

SpecRefresh == Init /\ [][NextRefresh]_vars

-----------------------------------------------------------------------------

(* UniswapV3LiquidityPoolManager (uniswap/managers.py): the managers of one  *)
(* chain and factory.  __init__ binds self.__dict__ to the class-level       *)
(* _state[chain_id][factory_address] (lines 316-341), so every handle works  *)
(* on the same _tracked_pools, _untracked_pools and _lock.                   *)

Handles == {1, 2}
Addresses == {1, 2, 3}

\* the outcome of one get_pool call, added to the log
Answered(t, outcome, object) ==
    [manager_log EXCEPT !.returned =
        @ \cup {[handle |-> getters[t].handle, address |-> getters[t].address,
                 raised |-> outcome, object |-> object]}]

\* lines 467-478: the tests on _untracked_pools and _tracked_pools
GetPool(t, handle, pool_address) ==
    /\ getters[t].pc = "idle"
    /\ manager_log.calls < MaxGetCalls
    /\ LET entered == [getters EXCEPT ![t] = [pc |-> "find", address |-> pool_address,
                                               handle |-> handle]]
           counted == [manager_log EXCEPT !.calls = @ + 1]
           Done(outcome, object) ==
               [counted EXCEPT !.returned =
                   @ \cup {[handle |-> handle, address |-> pool_address,
                            raised |-> outcome, object |-> object]}]
       IN IF pool_address \in untracked_pools
          THEN /\ manager_log' = Done("PoolNotAssociated", 0)
               /\ UNCHANGED getters
          ELSE IF pool_address \in DOMAIN tracked_pools
          THEN /\ manager_log' = Done("", tracked_pools[pool_address].object)
               /\ UNCHANGED getters
          ELSE /\ manager_log' = counted
               /\ getters' = entered
    /\ UNCHANGED <<all_pools, tracked_pools, untracked_pools, pool_vars, config_vars>>

\* lines 411-419: find_or_build asks AllPools for the address
FindInAllPools(t) ==
    /\ getters[t].pc = "find"
    /\ LET pool_address == getters[t].address IN
       IF pool_address \in DOMAIN all_pools
       THEN /\ getters' = [getters EXCEPT ![t] = Idle]
            /\ IF all_pools[pool_address].factory = OurFactory
               THEN /\ tracked_pools' = Put(tracked_pools, pool_address,
                                            all_pools[pool_address])
                    /\ manager_log' = Answered(t, "", all_pools[pool_address].object)
                    /\ UNCHANGED untracked_pools
               ELSE /\ untracked_pools' = untracked_pools \cup {pool_address}
                    /\ manager_log' = Answered(t, "PoolNotAssociated", 0)
                    /\ UNCHANGED tracked_pools
       ELSE /\ getters' = [getters EXCEPT ![t].pc = "build"]
            /\ UNCHANGED <<tracked_pools, untracked_pools, manager_log>>
    /\ UNCHANGED <<all_pools, pool_vars, config_vars>>

\* lines 433-451: the pool is built (its constructor registers it in
\* AllPools, v3_liquidity_pool.py line 251) and tracked, or the constructor
\* raises and the address becomes untracked
BuildPool(t, constructed) ==
    /\ getters[t].pc = "build"
    /\ getters' = [getters EXCEPT ![t] = Idle]
    /\ LET pool_address == getters[t].address
           pool_helper == [object |-> Cardinality(manager_log.built) + 1,
                           address |-> pool_address, factory |-> OurFactory]
       IN IF constructed
          THEN /\ all_pools' = Put(all_pools, pool_address, pool_helper)
               /\ tracked_pools' = Put(tracked_pools, pool_address, pool_helper)
               /\ manager_log' = [Answered(t, "", pool_helper.object)
                                     EXCEPT !.built = @ \cup {pool_helper}]
               /\ UNCHANGED untracked_pools
          ELSE /\ untracked_pools' = untracked_pools \cup {pool_address}
               /\ manager_log' = Answered(t, "ManagerError", 0)
               /\ UNCHANGED <<all_pools, tracked_pools>>
    /\ UNCHANGED <<pool_vars, config_vars>>

\* lines 343-354: __delitem__
DelItem(pool_address) ==
    /\ pool_address \in DOMAIN tracked_pools \/ pool_address \in untracked_pools
    /\ tracked_pools' = Del(tracked_pools, pool_address)
    /\ untracked_pools' = untracked_pools \ {pool_address}
    /\ UNCHANGED <<all_pools, getters, manager_log, pool_vars, config_vars>>

-----------------------------------------------------------------------------
(* SpecManager: the threads of Threads call get_pool through either handle,  *)
(* MaxGetCalls calls in all                                                  *)

GetPoolCall == \E t \in Threads, h \in Handles, a \in Addresses : GetPool(t, h, a)
FindStep == \E t \in Threads : FindInAllPools(t)
BuildStep == \E t \in Threads, constructed \in BOOLEAN : BuildPool(t, constructed)
DelItemCall == \E a \in Addresses : DelItem(a)

NextManager == GetPoolCall \/ FindStep \/ BuildStep \/ DelItemCall

\* the pool behind the managers plays no part: one construction is taken
InitManager == InitSparse /\ ~archive_states /\ state.tick = 0 /\ tick_data = EmptyDict

SpecManager == InitManager /\ [][NextManager]_vars

-----------------------------------------------------------------------------

(* degenbot.config (config.py): the registry of Web3 connections.  A Web3    *)
(* instance is [id, chain_id]; what its is_connected() returns is an input   *)
(* of each call that asks.                                                    *)

Web3s == { [id |-> 1, chain_id |-> 1], [id |-> 2, chain_id |-> 1],
           [id |-> 3, chain_id |-> 10] }
ChainIds == {1, 10}

\* the record of a call: `answers` are the results of is_connected() in the
\* order the call asked
ConfigCall(op, argument, answers, raised, ret) ==
    [op |-> op, argument |-> argument, answers |-> answers, raised |-> raised, ret |-> ret]

\* lines 17-21: Web3ConnectionManager.get_web3(chain_id); chain_id is None
\* (as <<>>) or <<id>>
Lookup(chain_id) ==
    IF chain_id # None /\ chain_id[1] \in DOMAIN connections
    THEN [raised |-> "", ret |-> Some(connections[chain_id[1]])]
    ELSE [raised |-> "DegenbotError", ret |-> None]

\* lines 23-26: Web3ConnectionManager.register_web3(w3)
RegisterWeb3(w3, is_connected) ==
    /\ IF is_connected
       THEN /\ connections' = Put(connections, w3.chain_id, w3)
            /\ config_calls' = Append(config_calls,
                                      ConfigCall("register_web3", w3, <<is_connected>>, "", None))
       ELSE /\ UNCHANGED connections
            /\ config_calls' = Append(config_calls,
                                      ConfigCall("register_web3", w3, <<is_connected>>,
                                                 "DegenbotError", None))
    /\ UNCHANGED <<default_chain_id, pool_vars, manager_vars>>

\* lines 28-29: Web3ConnectionManager.set_default_chain(chain_id)
SetDefaultChain(chain_id) ==
    /\ default_chain_id' = Some(chain_id)
    /\ config_calls' = Append(config_calls,
                              ConfigCall("set_default_chain", chain_id, <<>>, "", None))
    /\ UNCHANGED <<connections, pool_vars, manager_vars>>

\* lines 32-36: get_web3()
GetWeb3 ==
    /\ config_calls' = Append(config_calls,
                              ConfigCall("get_web3", None, <<>>,
                                         Lookup(default_chain_id).raised,
                                         Lookup(default_chain_id).ret))
    /\ UNCHANGED <<connections, default_chain_id, pool_vars, manager_vars>>

\* lines 17-21, called on web3_connection_manager
ManagerGetWeb3(chain_id) ==
    /\ config_calls' = Append(config_calls,
                              ConfigCall("web3_connection_manager.get_web3", chain_id, <<>>,
                                         Lookup(Some(chain_id)).raised,
                                         Lookup(Some(chain_id)).ret))
    /\ UNCHANGED <<connections, default_chain_id, pool_vars, manager_vars>>

\* lines 39-43: set_web3(w3); is_connected() is asked at line 40 and again
\* by register_web3 at line 24
SetWeb3_KeepDefault(w3, first, second) ==
    /\ IF first /\ second
       THEN /\ connections' = Put(connections, w3.chain_id, w3)
            /\ default_chain_id' = IF default_chain_id = None THEN Some(w3.chain_id)
                                   ELSE default_chain_id
            /\ config_calls' = Append(config_calls, ConfigCall("set_web3", w3, <<first, second>>, "", None))
       ELSE /\ UNCHANGED <<connections, default_chain_id>>
            /\ config_calls' = Append(config_calls,
                                      ConfigCall("set_web3", w3,
                                                 IF first THEN <<first, second>>
                                                 ELSE <<first>>,
                                                 "DegenbotError", None))
    /\ UNCHANGED <<pool_vars, manager_vars>>

SetWeb3(w3, first, second) ==
    /\ IF first /\ second
       THEN /\ connections' = Put(connections, w3.chain_id, w3)
            /\ default_chain_id' = Some(w3.chain_id)
            /\ config_calls' = Append(config_calls, ConfigCall("set_web3", w3, <<first, second>>, "", None))
       ELSE /\ UNCHANGED <<connections, default_chain_id>>
            /\ config_calls' = Append(config_calls,
                                      ConfigCall("set_web3", w3,
                                                 IF first THEN <<first, second>>
                                                 ELSE <<first>>,
                                                 "DegenbotError", None))
    /\ UNCHANGED <<pool_vars, manager_vars>>

-----------------------------------------------------------------------------
(* SpecConfig: any calls to degenbot.config, MaxConfigCalls calls deep *)

SetWeb3Call ==
    /\ Len(config_calls) < MaxConfigCalls
    /\ \E w3 \in Web3s, first \in BOOLEAN, second \in BOOLEAN : SetWeb3(w3, first, second)
RegisterWeb3Call ==
    /\ Len(config_calls) < MaxConfigCalls
    /\ \E w3 \in Web3s, is_connected \in BOOLEAN : RegisterWeb3(w3, is_connected)
SetDefaultChainCall ==
    /\ Len(config_calls) < MaxConfigCalls
    /\ \E chain_id \in ChainIds : SetDefaultChain(chain_id)
GetWeb3Call ==
    /\ Len(config_calls) < MaxConfigCalls
    /\ GetWeb3
ManagerGetWeb3Call ==
    /\ Len(config_calls) < MaxConfigCalls
    /\ \E chain_id \in ChainIds : ManagerGetWeb3(chain_id)

NextConfig ==
    SetWeb3Call \/ RegisterWeb3Call \/ SetDefaultChainCall \/ GetWeb3Call
    \/ ManagerGetWeb3Call

SpecConfig == InitManager /\ [][NextConfig]_vars

-----------------------------------------------------------------------------

(* SpecWords: a pool built from explicit maps receives liquidity events,     *)
(* refreshes and rollbacks, MaxWordCalls in all, and is asked for swap       *)
(* simulations on its live state                                             *)

\* sqrt_price_limit_x96 is left out only while the liquidity held is that of
\* the positions, so that the walk to the end of the liquidity stays in range
LiveLimits(zero_for_one) ==
    IF faithful /\ state.liquidity = ActiveLiquidity(minted, state.tick)
    THEN SimLimits(zero_for_one)
    ELSE SimLimits(zero_for_one) \ {None}

SimulateLive ==
    /\ swap = None
    /\ \E zero_for_one \in BOOLEAN, amount \in SimAmounts :
          \E limit \in LiveLimits(zero_for_one) :
             Simulate(SimulateOpFor(amount), zero_for_one, Magnitude(amount), limit,
                      NoOverride, EmptyDict, {})

WordsCall ==
    /\ ncalls < MaxWordCalls
    /\ LiquidityEventCall \/ AutoUpdateCall \/ RestoreCall

NextWords == WordsCall \/ SimulateLive

SpecWords == InitNonSparse /\ [][NextWords]_vars

-----------------------------------------------------------------------------

(* SpecFail: external updates, MaxCalls calls deep, in which the provider    *)
(* may fail when asked for a missing bitmap word                             *)

FailingUpdateCall ==
    /\ ncalls < MaxCalls
    /\ \E b \in NearBlocks, f \in FieldChoices, lc \in ChangeChoices :
          ExternalUpdateFetchFails(Update(b, f, lc), EmptyDict)

NextFail == UpdateCall \/ FailingUpdateCall

SpecFail == Init /\ [][NextFail]_vars

-----------------------------------------------------------------------------

(* SpecReport: simulate_exact_input_swap and simulate_exact_output_swap in   *)
(* two steps, the call of _calculate_swap (lines 1200-1219, 1252-1271) and   *)
(* the construction of the result (lines 1221-1232, 1273-1284).  The         *)
(* simulation takes no lock, so external updates of another thread,          *)
(* MaxReportCalls in all, can run between the two.                           *)

ReportOverrides == {NoOverride, OverrideWithoutMaps}
ReportLimits(zero_for_one) == SimLimits(zero_for_one) \ {None}

\* _calculate_swap reads the override state or the live state (lines 346-360)
\* and runs the loop on it
SimulationRuns ==
    /\ simulating = None
    /\ swap = None
    /\ \E zero_for_one \in BOOLEAN, amount \in SimAmounts, override \in ReportOverrides :
          \E limit \in ReportLimits(zero_for_one) :
             \E result \in { SwapOf(SimulateOpFor(amount), zero_for_one, Magnitude(amount),
                                    limit, override, EmptyDict, {}) } :
                simulating' =
                    Some([op |-> SimulateOpFor(amount),
                          zero_for_one |-> zero_for_one,
                          amount_specified |-> amount,
                          sqrt_price_limit_x96 |-> limit,
                          override_state |-> override,
                          result |-> result,
                          outcome |-> Surfaced(SimulateOpFor(amount), zero_for_one,
                                               Magnitude(amount), result),
                          ran_against |-> IF override = None THEN state
                                          ELSE override[1].state,
                          started |-> ncalls])
    /\ UNCHANGED <<state, tick_bitmap, tick_data, update_block, archive, archive_states,
                   sparse_liquidity_map, minted, faithful, hist, ncalls, threads, swap,
                   archived_maps, failing_subscribers, notified, fetching,
                   config_vars, manager_vars>>

\* the initial_state of the UniswapV3PoolSimulationResult (lines 1225, 1277)
InitialState(simulation, live) == live

\* lines 1221-1232, 1273-1284: the result is built and returned
SimulationReturns ==
    /\ simulating # None
    /\ swap' = Some([op |-> simulating[1].op,
                     zero_for_one |-> simulating[1].zero_for_one,
                     amount_specified |-> simulating[1].amount_specified,
                     sqrt_price_limit_x96 |-> simulating[1].sqrt_price_limit_x96,
                     override_state |-> simulating[1].override_state,
                     result |-> simulating[1].result,
                     outcome |-> simulating[1].outcome,
                     ran_against |-> simulating[1].ran_against,
                     initial_state |-> InitialState(simulating[1], state),
                     mutations |-> ncalls - simulating[1].started,
                     nth |-> 1])
    /\ simulating' = None
    /\ UNCHANGED <<state, tick_bitmap, tick_data, update_block, archive, archive_states,
                   sparse_liquidity_map, minted, faithful, hist, ncalls, threads,
                   archived_maps, failing_subscribers, notified, fetching,
                   config_vars, manager_vars>>

\* an external update by another thread
MutationCall ==
    /\ ncalls < MaxReportCalls
    /\ \E b \in NearBlocks, f \in FieldChoices :
          ExternalUpdate(Update(b, f, NoChange), EmptyDict, EmptyDict)

NextReport == SimulationRuns \/ SimulationReturns \/ MutationCall

SpecReport == InitNonSparse /\ [][NextReport]_vars

-----------------------------------------------------------------------------

(* Vocabulary of the properties.  In an action formula the unprimed          *)
(* variables are the pool before the call, the primed ones the pool after    *)
(* it, and hist'[1] is the record of the call.                               *)

Called(op) == ncalls' = ncalls + 1 /\ hist'[1].op = op
Returned(op) == Called(op) /\ hist'[1].raised = ""
LiveUnchanged == UNCHANGED <<state, tick_bitmap, tick_data, update_block, archive>>

Last == hist[1]
LastWas(op) == Len(hist) > 0 /\ hist[1].op = op

\* the update names a field value different from the live one
FieldDiffers(u) ==
    \/ u.tick # None /\ u.tick[1] # state.tick
    \/ u.liquidity # None /\ u.liquidity[1] # state.liquidity
    \/ u.sqrt_price_x96 # None /\ u.sqrt_price_x96[1] # state.sqrt_price_x96
NonZeroChange(u) == u.liquidity_change # None /\ u.liquidity_change[1] # 0
OnlyLiquidityChange(u) ==
    u.tick = None /\ u.liquidity = None /\ u.sqrt_price_x96 = None /\ NonZeroChange(u)

\* C1: external_update raises ExternalUpdateError for an update whose
\* block_number is lower than update_block, leaving the live state,
\* update_block and the archive unchanged and publishing nothing; an update
\* whose block_number equals update_block is not rejected.
C1_StaleUpdateRejected ==
    [][Called("external_update") =>
        LET c == hist'[1] IN
        /\ c.update.block_number < update_block =>
              /\ c.raised = "ExternalUpdateError"
              /\ LiveUnchanged
              /\ c.published = <<>>
        /\ c.update.block_number = update_block => c.raised = ""]_vars

C1_Witness ==
    /\ LastWas("external_update")
    /\ Last.raised = "ExternalUpdateError"
    /\ Last.update.liquidity_change # None

\* C3: an external_update that changes tick, liquidity or sqrt_price_x96, or
\* carries a non-zero liquidity_change, returns True with the archive (if
\* enabled) mapping update.block_number to the new live state, exactly one
\* notification carrying the new live state, and update_block equal to
\* update.block_number; otherwise it returns False, touches nothing and
\* publishes nothing.
C3_CommitOnChange ==
    [][Returned("external_update") =>
        LET c == hist'[1]
            u == hist'[1].update
        IN IF FieldDiffers(u) \/ NonZeroChange(u)
           THEN /\ c.ret = TRUE
                /\ archive_states =>
                      \E i \in DOMAIN archive' :
                          /\ archive'[i] = [block |-> u.block_number, state |-> state']
                          /\ \A j \in DOMAIN archive' :
                                archive'[j].block = u.block_number => j = i
                /\ c.published = <<state'>>
                /\ update_block' = u.block_number
           ELSE /\ c.ret = FALSE
                /\ LiveUnchanged
                /\ c.published = <<>>]_vars

C3_Witness ==
    /\ LastWas("external_update")
    /\ Last.ret = TRUE
    /\ archive_states
    /\ update_block = Last.update.block_number
    /\ Len(archive) = 2
    /\ Len(hist) = 2 /\ hist[2].op = "external_update" /\ hist[2].raised = ""
    /\ hist[2].ret = FALSE

\* the entry and bit of tick t in the dicts td, bm
EntryView(td, bm, t) ==
    [known |-> t \in DOMAIN td,
     liquidityNet |-> IF t \in DOMAIN td THEN td[t].liquidityNet ELSE 0,
     liquidityGross |-> IF t \in DOMAIN td THEN td[t].liquidityGross ELSE 0,
     initialized |-> IsInitialized(bm, t)]

\* the provider answer call c fetched for bitmap word w: <<answer>>, or None
FetchedWord(c, w) ==
    IF c.fetchedLower # None /\ TickWord(c.update.liquidity_change[2]) = w
    THEN c.fetchedLower
    ELSE IF c.fetchedUpper # None /\ TickWord(c.update.liquidity_change[3]) = w
    THEN c.fetchedUpper
    ELSE None

\* what call c finds at tick t once a missing word has been loaded, given the
\* view `v` of the tick before the call
FoundView(c, t, v) ==
    LET f == FetchedWord(c, TickWord(t)) IN
    IF f = None THEN v
    ELSE IF t \in DOMAIN f[1]
    THEN [known |-> TRUE, liquidityNet |-> f[1][t].liquidityNet,
          liquidityGross |-> f[1][t].liquidityGross, initialized |-> TRUE]
    ELSE [v EXCEPT !.initialized = FALSE]

\* C4: a non-zero liquidity_change (delta, lower, upper) changes the active
\* liquidity by exactly delta if and only if lower <= tick < upper (tick and
\* liquidity taken after the update's own tick / liquidity fields are
\* applied); outside the range the active liquidity is unchanged while the
\* entries at lower and upper are still updated.
C4_InRangeLiquidity ==
    [][Returned("external_update") /\ NonZeroChange(hist'[1].update) =>
        LET c == hist'[1]
            u == hist'[1].update
            delta == u.liquidity_change[1]
            lower == u.liquidity_change[2]
            upper == u.liquidity_change[3]
            base == IF u.liquidity # None THEN u.liquidity[1] ELSE state.liquidity
            cur == IF u.tick # None THEN u.tick[1] ELSE state.tick
            inside == lower <= cur /\ cur < upper
        IN /\ (state'.liquidity = base + delta) <=> inside
           /\ ~inside =>
                 /\ state'.liquidity = base
                 /\ \A t \in {lower, upper} :
                       EntryView(tick_data', tick_bitmap', t) #
                           FoundView(c, t, EntryView(tick_data, tick_bitmap, t))]_vars

\* the spec's example: the tick is the upper bound of the range, the
\* liquidity is untouched and both boundary entries exist
C4_Witness ==
    /\ LastWas("external_update") /\ Last.raised = ""
    /\ Last.update.liquidity_change = <<1, -60, 60>>
    /\ state.tick = 60
    /\ state.liquidity = Last.before[1].liquidity
    /\ {-60, 60} \subseteq DOMAIN tick_data

\* the bits of word w other than those of the ticks in T
OtherBits(bits, w, T) == bits \ {TickBit(t) : t \in {x \in T : TickWord(x) = w}}

\* the new entry and bit of boundary tick t, given the entry `found` there
BoundaryUpdated(t, found, delta, isLower, blk) ==
    LET net == IF isLower THEN found.liquidityNet + delta ELSE found.liquidityNet - delta
        gross == found.liquidityGross + delta
    IN IF gross = 0
       THEN t \notin DOMAIN tick_data' /\ ~IsInitialized(tick_bitmap', t)
       ELSE /\ t \in DOMAIN tick_data'
            /\ tick_data'[t] = [liquidityNet |-> net, liquidityGross |-> gross,
                                block |-> <<blk>>]
            /\ IsInitialized(tick_bitmap', t)

\* C5 as stated: net at L becomes old+D, at U old-D, gross old+D at both, a
\* tick with no entry counting as 0/0 and getting its bit set; gross 0
\* deletes the entry and clears the bit, otherwise the entry is stamped with
\* update.block_number; no other tick's entry or bit changes.  "old" is the
\* entry the pool holds when external_update is called; D is taken non-zero,
\* a zero D not being applied at all.
C5_AsStated ==
    [][Returned("external_update") /\ NonZeroChange(hist'[1].update) =>
        LET u == hist'[1].update
            delta == u.liquidity_change[1]
            lower == u.liquidity_change[2]
            upper == u.liquidity_change[3]
        IN /\ BoundaryUpdated(lower, EntryView(tick_data, tick_bitmap, lower),
                              delta, TRUE, u.block_number)
           /\ BoundaryUpdated(upper, EntryView(tick_data, tick_bitmap, upper),
                              delta, FALSE, u.block_number)
           /\ DOMAIN tick_data' \ {lower, upper} = DOMAIN tick_data \ {lower, upper}
           /\ \A t \in DOMAIN tick_data \ {lower, upper} : tick_data'[t] = tick_data[t]
           /\ \A w \in DOMAIN tick_bitmap' :
                 OtherBits(tick_bitmap'[w].bitmap, w, {lower, upper}) =
                 OtherBits(IF w \in DOMAIN tick_bitmap THEN tick_bitmap[w].bitmap ELSE {},
                           w, {lower, upper})]_vars

\* C5 (amended): the same for a non-zero D, where "old" is the entry
\* external_update finds after it has loaded a missing bitmap word of L or U
\* from the provider in a sparse pool (at update.block_number - 1); besides
\* L and U, only the ticks of such a freshly loaded word get an entry or a
\* bit.  A liquidity_change with D = 0 changes no entry and no bit.
C5_BoundaryTicks ==
    [][Returned("external_update") /\ hist'[1].update.liquidity_change # NoChange =>
        IF hist'[1].update.liquidity_change[1] = 0
        THEN UNCHANGED <<tick_data, tick_bitmap>>
        ELSE
        LET c == hist'[1]
            u == hist'[1].update
            delta == u.liquidity_change[1]
            lower == u.liquidity_change[2]
            upper == u.liquidity_change[3]
            Loaded(w) == FetchedWord(c, w) # None
            Answer(w) == FetchedWord(c, w)[1]
        IN /\ BoundaryUpdated(lower,
                 FoundView(c, lower, EntryView(tick_data, tick_bitmap, lower)),
                 delta, TRUE, u.block_number)
           /\ BoundaryUpdated(upper,
                 FoundView(c, upper, EntryView(tick_data, tick_bitmap, upper)),
                 delta, FALSE, u.block_number)
           /\ \A t \in (DOMAIN tick_data' \cup DOMAIN tick_data) \ {lower, upper} :
                 /\ t \in DOMAIN tick_data'
                 /\ IF Loaded(TickWord(t)) /\ t \in DOMAIN Answer(TickWord(t))
                    THEN tick_data'[t] =
                           [liquidityNet |-> Answer(TickWord(t))[t].liquidityNet,
                            liquidityGross |-> Answer(TickWord(t))[t].liquidityGross,
                            block |-> <<u.block_number - 1>>]
                    ELSE t \in DOMAIN tick_data /\ tick_data'[t] = tick_data[t]
           /\ DOMAIN tick_bitmap \subseteq DOMAIN tick_bitmap'
           /\ \A w \in DOMAIN tick_bitmap' :
                 OtherBits(tick_bitmap'[w].bitmap, w, {lower, upper}) =
                 OtherBits(IF Loaded(w) THEN {TickBit(t) : t \in DOMAIN Answer(w)}
                           ELSE IF w \in DOMAIN tick_bitmap THEN tick_bitmap[w].bitmap
                           ELSE {},
                           w, {lower, upper})]_vars

\* a burn that empties the lower tick and lands on a freshly fetched word
C5_Witness ==
    /\ LastWas("external_update") /\ Last.raised = ""
    /\ Last.update.liquidity_change = <<-1, -60, 60>>
    /\ Last.fetchedLower # None
    /\ -60 \in DOMAIN Last.fetchedLower[1]
    /\ -60 \notin DOMAIN tick_data
    /\ -120 \in DOMAIN tick_data
    /\ 60 \in DOMAIN tick_data

\* the last two calls are external_update (D, L, U) and then, at a later
\* block, (-D, L, U), both carrying nothing but the liquidity_change
MintThenBurn ==
    /\ Len(hist) = 2
    /\ \A i \in {1, 2} : /\ hist[i].op = "external_update"
                         /\ hist[i].raised = ""
                         /\ OnlyLiquidityChange(hist[i].update)
                         /\ NonZeroChange(hist[i].update)
    /\ hist[1].update.liquidity_change[1] = - hist[2].update.liquidity_change[1]
    /\ hist[1].update.liquidity_change[2] = hist[2].update.liquidity_change[2]
    /\ hist[1].update.liquidity_change[3] = hist[2].update.liquidity_change[3]
    /\ hist[1].update.block_number > hist[2].update.block_number

SameEntry(a, b) ==
    /\ a.known = b.known
    /\ a.liquidityNet = b.liquidityNet
    /\ a.liquidityGross = b.liquidityGross
    /\ a.initialized = b.initialized

\* C6 as stated: after (D, L, U) and then (-D, L, U) at a later block, the
\* entries and bits of L and U and the active liquidity are what the pool
\* held before the first update.
C6_AsStated ==
    MintThenBurn =>
        LET c == hist[2]
            lower == c.update.liquidity_change[2]
            upper == c.update.liquidity_change[3]
        IN /\ SameEntry(EntryView(tick_data, tick_bitmap, lower), c.before[1].lower)
           /\ SameEntry(EntryView(tick_data, tick_bitmap, upper), c.before[1].upper)
           /\ state.liquidity = c.before[1].liquidity

\* the first update does not delete an entry whose liquidityNet it leaves
\* non-zero (it never does when it burns a previously minted position)
NoNetLost(c) ==
    LET delta == c.update.liquidity_change[1]
        lower == c.update.liquidity_change[2]
        upper == c.update.liquidity_change[3]
        foundL == FoundView(c, lower, c.before[1].lower)
        foundU == FoundView(c, upper, c.before[1].upper)
    IN /\ foundL.liquidityGross + delta = 0 => foundL.liquidityNet + delta = 0
       /\ foundU.liquidityGross + delta = 0 => foundU.liquidityNet - delta = 0

\* C6 (amended): after (D, L, U) and then (-D, L, U) at a later block, the
\* entries and bits of L and U and the active liquidity are what the first
\* update found once it had loaded a missing bitmap word of L or U (sparse
\* pool), provided the first update deleted no entry with a non-zero
\* liquidityNet left in it.
C6_MintBurnRoundTrip ==
    MintThenBurn /\ NoNetLost(hist[2]) =>
        LET c == hist[2]
            lower == c.update.liquidity_change[2]
            upper == c.update.liquidity_change[3]
        IN /\ SameEntry(EntryView(tick_data, tick_bitmap, lower),
                        FoundView(c, lower, c.before[1].lower))
           /\ SameEntry(EntryView(tick_data, tick_bitmap, upper),
                        FoundView(c, upper, c.before[1].upper))
           /\ state.liquidity = c.before[1].liquidity

\* a burn that deletes both entries followed by the mint that recreates them
C6_Witness ==
    /\ MintThenBurn /\ NoNetLost(hist[2])
    /\ hist[2].update.liquidity_change = <<-1, -60, 60>>
    /\ hist[2].before[1].lower.known /\ hist[2].before[1].upper.known
    /\ hist[2].before[1].lower.liquidityGross = 1
    /\ -60 \in DOMAIN tick_data /\ 60 \in DOMAIN tick_data
    /\ ~sparse_liquidity_map

\* the archived snapshot of each block number k of K is the same before and
\* after the step
SnapshotsKept(K) ==
    \A k \in K : /\ k \in ArchiveKeys(archive')
                 /\ ArchiveGet(archive', k) = ArchiveGet(archive, k)

GreatestBlock(K) == CHOOSE k \in K : \A j \in K : j <= k

\* C8: with a snapshot strictly before `block` and one at or after it,
\* restore_state_before_block(block) removes every snapshot >= block, keeps
\* every earlier one, sets the live state and update_block to the remaining
\* snapshot with the greatest block number and publishes one notification
\* carrying that state, in whatever order the block numbers were archived.
C8_RestoreToGreatestRemaining ==
    [][Called("restore_state_before_block") =>
        LET block == hist'[1].block
            keys == ArchiveKeys(archive)
            earlier == {k \in keys : k < block}
        IN (earlier # {} /\ earlier # keys) =>
              /\ hist'[1].raised = ""
              /\ ArchiveKeys(archive') = earlier
              /\ SnapshotsKept(earlier)
              /\ update_block' = GreatestBlock(earlier)
              /\ state' = ArchiveGet(archive, GreatestBlock(earlier))
              /\ hist'[1].published = <<state'>>]_vars

\* C9: restore_state_before_block(block) raises NoPoolStateAvailable and
\* changes nothing when no snapshot is strictly below `block`; when every
\* snapshot is below `block` it returns with archive, live state and
\* update_block unchanged and publishes nothing.
C9_RestoreRaisesOrReturns ==
    [][Called("restore_state_before_block") =>
        LET block == hist'[1].block
            keys == ArchiveKeys(archive)
            earlier == {k \in keys : k < block}
        IN /\ earlier = {} => /\ hist'[1].raised = "NoPoolStateAvailable"
                              /\ LiveUnchanged
                              /\ hist'[1].published = <<>>
           /\ (earlier # {} /\ earlier = keys) =>
                              /\ hist'[1].raised = ""
                              /\ LiveUnchanged
                              /\ hist'[1].published = <<>>]_vars

\* a rollback refused for want of an earlier snapshot, then one that finds
\* every snapshot already earlier
C9_Witness ==
    /\ Len(hist) = 2 /\ archive_states
    /\ hist[2].op = "restore_state_before_block"
    /\ hist[2].raised = "NoPoolStateAvailable"
    /\ hist[1].op = "restore_state_before_block"
    /\ hist[1].raised = "" /\ hist[1].published = <<>>
    /\ \A k \in ArchiveKeys(archive) : hist[2].block <= k /\ k < hist[1].block

C2_UpdateBlockMonotonic ==
    [][Called("external_update") =>
        /\ update_block' >= update_block
        /\ hist'[1].ret => hist'[1].update.block_number >= update_block]_vars

\* the sum of liquidityNet over the entries of td at or below `tick`
RECURSIVE SumNetOver(_, _)
SumNetOver(td, T) ==
    IF T = {} THEN 0
    ELSE LET t == CHOOSE x \in T : TRUE
         IN td[t].liquidityNet + SumNetOver(td, T \ {t})
LiquidityAtOrBelow(td, tick) == SumNetOver(td, {t \in DOMAIN td : t <= tick})

\* C7: in a pool built from a complete snapshot in which the active
\* liquidity is the sum of liquidityNet over the tick_data entries at or
\* below the current tick, that equality holds after every sequence of
\* external_update calls carrying only liquidity_change events (mints, and
\* burns of previously minted liquidity), and the (end_liquidity, end_tick)
\* of every swap simulation that returns satisfies it against the same
\* tick_data.
C7_LiquidityMatchesTickData ==
    /\ state.liquidity = LiquidityAtOrBelow(tick_data, state.tick)
    /\ (swap # None /\ swap[1].result.reverted = "") =>
          swap[1].result.liquidity = LiquidityAtOrBelow(tick_data, swap[1].result.tick)

\* after a mint and a burn, a simulated swap that crossed initialized ticks
\* downwards and stopped between two ticks
C7_Witness ==
    /\ ncalls = 2 /\ LastWas("external_update") /\ Last.ret
    /\ Last.update.liquidity_change[1] = -1
    /\ swap # None /\ swap[1].result.reverted = ""
    /\ swap[1].zero_for_one
    /\ swap[1].result.tick < -60 /\ swap[1].result.tick > -120
    /\ swap[1].result.liquidity > 0
    /\ swap[1].result.liquidity # state.liquidity

C12_PruneKeepsRollbackTarget ==
    [][Called("discard_states_before_block") /\ archive_states =>
        \A b2 \in Blocks :
            LET before == RestoreOutcome(archive, b2)
                after == RestoreOutcome(archive', b2)
                earlier == {k \in ArchiveKeys(archive) : k < b2}
            IN (b2 >= hist'[1].block /\ before.case # "raise") =>
                  /\ after.case = before.case
                  /\ after.restored = before.restored
                  /\ SnapshotsKept({GreatestBlock(earlier)})
                  /\ after.case = "restore" =>
                        after.restored[1].block = GreatestBlock(earlier)]_vars

\* the two dicts every PoolState of the pool refers to, live or archived
LiveMaps == [bm |-> tick_bitmap, td |-> tick_data]

\* C13: an archived PoolState never changes after it is stored: whatever
\* external updates, fetches and refreshes follow, the snapshot archived for
\* block b holds the tick_bitmap and tick_data the pool had when the entry
\* of b was written, and a rollback to it brings back its liquidity, price
\* and tick together with that tick_bitmap and tick_data.
C13_ArchivedStateImmutable ==
    [][/\ \A b \in ArchiveKeys(archive') : LiveMaps' = archived_maps'[b]
       /\ (Called("restore_state_before_block") /\ hist'[1].published # <<>>) =>
             /\ state' = ArchiveGet(archive, update_block')
             /\ LiveMaps' = archived_maps[update_block']]_vars

\* the block number an auto_update or external_update call archives under
UpdateBlockOf(c) == IF c.op = "auto_update" THEN c.block ELSE c.update.block_number

\* C14 as stated: once a snapshot is archived under block b, no later
\* auto_update or external_update replaces the snapshot stored under b, and
\* an entry disappears only through discard_states_before_block or
\* restore_state_before_block.
C14_AsStated ==
    [][/\ (Called("auto_update") \/ Called("external_update")) =>
             SnapshotsKept(ArchiveKeys(archive))
       /\ ArchiveKeys(archive) \ ArchiveKeys(archive') # {} =>
             \/ Called("discard_states_before_block")
             \/ Called("restore_state_before_block")]_vars

\* C14 (amended): an auto_update or external_update that records a change
\* writes the new live state under its own block number, replacing the
\* snapshot already stored under that number if there is one; it never
\* changes or removes the entry of any other block, a call that records no
\* change leaves the archive as it is, and an entry only disappears through
\* discard_states_before_block or restore_state_before_block.
C14_ArchiveEntryWrites ==
    [][/\ (Called("auto_update") \/ Called("external_update")) =>
             LET b == UpdateBlockOf(hist'[1]) IN
             /\ SnapshotsKept(ArchiveKeys(archive) \ {b})
             /\ ArchiveKeys(archive') \subseteq ArchiveKeys(archive) \cup {b}
             /\ ArchiveKeys(archive) \subseteq ArchiveKeys(archive')
             /\ (archive_states /\ hist'[1].ret) =>
                   b \in ArchiveKeys(archive') /\ ArchiveGet(archive', b) = state'
             /\ ~hist'[1].ret => archive' = archive
       /\ ArchiveKeys(archive) \ ArchiveKeys(archive') # {} =>
             \/ Called("discard_states_before_block")
             \/ Called("restore_state_before_block")]_vars

\* two updates of the same block, the second replacing the snapshot the
\* first had archived under it
C14_Witness ==
    /\ Len(hist) = 2 /\ archive_states
    /\ \A i \in {1, 2} : hist[i].op = "external_update" /\ hist[i].ret
    /\ hist[1].update.block_number = hist[2].update.block_number
    /\ hist[2].published # hist[1].published
    /\ ArchiveGet(archive, hist[1].update.block_number) = state
    /\ Len(archive) = 2

\* the content of the two dicts without the block stamps
StripMaps(m) ==
    [bm |-> [w \in DOMAIN m.bm |-> m.bm[w].bitmap],
     td |-> [t \in DOMAIN m.td |-> [liquidityNet |-> m.td[t].liquidityNet,
                                    liquidityGross |-> m.td[t].liquidityGross]]]

\* the last two calls are a rollback to before block B that did not raise
\* and then auto_update(block_number=B)
RestoreThenRefresh ==
    /\ Len(hist) = 2
    /\ hist[2].op = "restore_state_before_block" /\ hist[2].raised = ""
    /\ hist[1].op = "auto_update" /\ hist[1].block = hist[2].block

\* C15: restore_state_before_block(B) followed immediately by
\* auto_update(block_number=B) leaves the live state a pool freshly
\* constructed from the chain and refreshed at block B holds, whatever
\* updates at blocks >= B were applied before the rollback: liquidity,
\* sqrt_price_x96 and tick are the provider's reading at B and, in a pool
\* with complete maps, tick_bitmap and tick_data are those of the latest
\* snapshot before B, the liquidity events of the blocks rolled back being
\* no part of the chain any more.
C15_RestoreThenRefreshIsCold ==
    (RestoreThenRefresh /\ ~sparse_liquidity_map) =>
        LET B == hist[1].block
            r == GreatestBlock({k \in ArchiveKeys(archive) : k < B})
        IN /\ state = hist[1].reading
           /\ update_block = B
           /\ StripMaps(LiveMaps) = StripMaps(archived_maps[r])

\* C16: in a pool constructed with archive_states=False,
\* discard_states_before_block and restore_state_before_block raise
\* NoPoolStateAvailable without changing the live state or update_block (and
\* publish nothing), and no auto_update or external_update creates an
\* archive.
C16_NoArchiveNoRollback ==
    [][~archive_states =>
        /\ archive = None /\ archive' = None
        /\ (\/ Called("discard_states_before_block")
            \/ Called("restore_state_before_block")) =>
              /\ hist'[1].raised = "NoPoolStateAvailable"
              /\ UNCHANGED <<state, tick_bitmap, tick_data, update_block>>
              /\ hist'[1].published = <<>>]_vars

\* after an update that changed the pool, a pruning and a rollback both
\* refused for want of an archive
C16_Witness ==
    /\ ~archive_states /\ archive = None
    /\ ncalls = 3 /\ update_block # InitBlock
    /\ hist[2].op = "discard_states_before_block"
    /\ hist[2].raised = "NoPoolStateAvailable"
    /\ hist[1].op = "restore_state_before_block"
    /\ hist[1].raised = "NoPoolStateAvailable"
    /\ hist[1].block > update_block

-----------------------------------------------------------------------------
(* Simulations *)

\* a step that is one simulate_* / calculate_* call
SimulationMade == swap' # swap /\ swap' # None

\* the word fetches a simulation made
FetchesOf(s) == {i \in DOMAIN s.result.trace : s.result.trace[i].kind = "fetch"}

\* C17: a simulation, on the live state or on an override state, returning
\* or raising, leaves the pool as it was: liquidity, sqrt_price_x96, tick,
\* tick_bitmap, tick_data, update_block and the archive (with what its
\* snapshots hold) are the same after the call as before it.
C17_SimulationLeavesPool ==
    [][SimulationMade =>
          /\ UNCHANGED <<state, tick_bitmap, tick_data, update_block, archive>>
          /\ \A b \in ArchiveKeys(archive) : LiveMaps' = archived_maps[b]]_vars

\* the iterations of the simulation s that computed a step
StepsOf(s) == {i \in DOMAIN s.result.trace : s.result.trace[i].kind = "step"}

\* the step r ended exactly on the price of its candidate tick
ReachedCandidate(r) == r.end.sqrt_price_x96 = get_sqrt_ratio_at_tick(r.tick_next)

\* the change of the working liquidity the step r has to make, given the
\* tick_data the simulation read
LiquidityDue(r, td, zero_for_one) ==
    IF ReachedCandidate(r) /\ r.initialized
    THEN IF zero_for_one THEN -td[r.tick_next].liquidityNet ELSE td[r.tick_next].liquidityNet
    ELSE 0

\* C18: in every step of a simulation that ends exactly on the price of the
\* candidate tick, the candidate being initialized, the working liquidity
\* changes by exactly tick_data[candidate].liquidityNet, negated when
\* zero_for_one; in every other step (candidate not initialized, or the price
\* stopping short of it) the working liquidity is unchanged.  (A step whose
\* crossing would make the liquidity negative raises "LS" instead.)
C18_CrossingAppliesLiquidityNet ==
    swap # None =>
        \A i \in StepsOf(swap[1]) :
            LET r == swap[1].result.trace[i]
            IN r.end.reverted = "" =>
                  r.end.liquidity =
                      r.start.liquidity
                      + LiquidityDue(r, swap[1].result.read.td, swap[1].zero_for_one)

\* a simulation on a sparse pool crossed an initialized tick downwards and
\* the liquidity changed, and made another step that crossed nothing
C18_Witness ==
    /\ swap # None /\ sparse_liquidity_map
    /\ swap[1].zero_for_one /\ swap[1].result.reverted = ""
    /\ \E i, j \in StepsOf(swap[1]) :
          LET r == swap[1].result.trace[i]
              q == swap[1].result.trace[j]
          IN /\ ReachedCandidate(r) /\ r.initialized
             /\ r.end.liquidity # r.start.liquidity
             /\ ~(ReachedCandidate(q) /\ q.initialized)
             /\ q.end.sqrt_price_x96 # q.start.sqrt_price_x96

\* the working state of the loop without its outcome mark
Working(st) == [st EXCEPT !.reverted = ""]

\* the word w is stored in the dicts m, stamped blk, with an entry for every
\* tick it marks as initialized
WordStored(m, w, blk) ==
    /\ w \in DOMAIN m.bm
    /\ m.bm[w].block = Some(blk)
    /\ \A bit \in m.bm[w].bitmap : (w * WordBits + bit) * TickSpacing \in DOMAIN m.td

\* C19: when _calculate_swap meets a bitmap word that is not loaded, in a
\* sparse pool, it fetches that word and its initialized ticks into the pool
\* and enters the same iteration again with the working state (remaining
\* amount, calculated amount, sqrt price, tick, liquidity) unchanged: the
\* next thing the loop does is the step from that same state.  The call
\* never ends in BitmapWordUnavailableError; when the fetch itself fails the
\* call ends in the provider's failure, with the working state as it was.
\* (With an override state that has dicts of its own the word is stored in
\* the pool's dicts and the iteration, entered again, misses it again.)
C19_FetchAndRetry ==
    swap # None =>
        LET s == swap[1]
            t == s.result.trace
        IN /\ s.result.reverted # "BitmapWordUnavailableError"
           /\ \A i \in FetchesOf(s) :
                 /\ sparse_liquidity_map
                 /\ t[i].word = BitmapWordOf(t[i].start.tick, TickSpacing, s.zero_for_one)
                 /\ Working(t[i].end) = Working(t[i].start)
                 /\ IF t[i].end.reverted = "ProviderError"
                    THEN i = Len(t) /\ s.result.reverted = "ProviderError"
                    ELSE /\ WordStored(s.result.m, t[i].word, update_block)
                         /\ IF s.override_state = None \/ s.override_state[1].maps = None
                            THEN /\ i < Len(t)
                                 /\ t[i + 1].kind = "step"
                                 /\ t[i + 1].start = t[i].start
                                 /\ TickWord(t[i + 1].tick_next) = t[i].word
                            ELSE i = Len(t) /\ s.result.reverted = "NeverReturns"

\* a simulation on a sparse pool fetched a word after it had consumed part
\* of the amount, went on and returned
C19_Witness ==
    /\ swap # None /\ sparse_liquidity_map
    /\ swap[1].result.reverted = ""
    /\ \E i \in FetchesOf(swap[1]) :
          LET r == swap[1].result.trace[i]
          IN /\ r.start.amount_specified_remaining # swap[1].amount_specified
             /\ r.end.reverted = ""
             /\ swap[1].result.trace[i + 1].end.amount_specified_remaining
                   # r.start.amount_specified_remaining

\* the sqrt_price_limit_x96 the simulation s handed to _calculate_swap
LimitOf(s) ==
    IF s.sqrt_price_limit_x96 # None THEN s.sqrt_price_limit_x96[1]
    ELSE DefaultLimit(s.zero_for_one)

\* p is at or before q in the direction the trade moves the price
NotPast(zero_for_one, p, q) == IF zero_for_one THEN p >= q ELSE p <= q

\* of the candidate tick's price and the limit, the one the price meets first
NearerOf(zero_for_one, candidate, limit) ==
    IF NotPast(zero_for_one, candidate, limit) THEN candidate ELSE limit

\* C20: throughout _calculate_swap the working sqrt price never moves past
\* sqrt_price_limit_x96 in the trade direction: the target of every step is
\* the nearer of the candidate tick's price and the limit, the price after
\* the step lies between the step's start price and that target, and when
\* the call returns the remaining amount is 0 or the end price is the limit.
C20_PriceWithinLimit ==
    swap # None =>
        LET s == swap[1]
            t == s.result.trace
            limit == LimitOf(s)
        IN /\ \A i \in StepsOf(s) :
                 /\ t[i].target = NearerOf(s.zero_for_one,
                                           get_sqrt_ratio_at_tick(t[i].tick_next), limit)
                 /\ NotPast(s.zero_for_one, t[i].start.sqrt_price_x96, t[i].end.sqrt_price_x96)
                 /\ NotPast(s.zero_for_one, t[i].end.sqrt_price_x96, t[i].target)
                 /\ NotPast(s.zero_for_one, t[i].end.sqrt_price_x96, limit)
           /\ s.result.reverted = "" =>
                 /\ NotPast(s.zero_for_one, s.result.sqrt_price_x96, limit)
                 /\ s.result.remaining = 0 \/ s.result.sqrt_price_x96 = limit

\* a simulation with a price limit of its own stopped at the limit with part
\* of the amount left, in a step whose candidate tick lies beyond the limit,
\* after an earlier step that ended on its candidate tick
C20_Witness ==
    /\ swap # None
    /\ swap[1].sqrt_price_limit_x96 # None
    /\ swap[1].result.reverted = ""
    /\ swap[1].result.remaining # 0
    /\ swap[1].result.sqrt_price_x96 = LimitOf(swap[1])
    /\ \E i, j \in StepsOf(swap[1]) :
          LET r == swap[1].result.trace[i]
              q == swap[1].result.trace[j]
          IN /\ i < j
             /\ ReachedCandidate(r) /\ r.end.sqrt_price_x96 # r.start.sqrt_price_x96
             /\ q.target = LimitOf(swap[1])
             /\ get_sqrt_ratio_at_tick(q.tick_next) # LimitOf(swap[1])

-----------------------------------------------------------------------------
(* The public simulations: requests, results and errors *)

\* the price the simulation s starts from
StartPrice(s) ==
    IF s.override_state = None THEN state.sqrt_price_x96
    ELSE s.override_state[1].state.sqrt_price_x96

\* the call s reached _calculate_swap
Calculated(s) == s.result.reverted # "ValueError"

\* C21: _calculate_swap raises EVMRevertError before it makes any loop step
\* when amount_specified is 0 ("AS"), or when sqrt_price_limit_x96 is not
\* strictly between the global bound and the start price in the trade
\* direction ("SPL"), and with these reasons in no other case; the public
\* method then raises and returns no result.
C21_InvalidRequestRejected ==
    swap # None =>
        LET s == swap[1]
            in_range == IF s.zero_for_one
                        THEN MIN_SQRT_RATIO < LimitOf(s) /\ LimitOf(s) < StartPrice(s)
                        ELSE StartPrice(s) < LimitOf(s) /\ LimitOf(s) < MAX_SQRT_RATIO
        IN /\ Calculated(s) =>
                 /\ s.result.reverted = "AS" <=> s.amount_specified = 0
                 /\ s.result.reverted = "SPL" <=> (s.amount_specified # 0 /\ ~in_range)
           /\ (s.amount_specified = 0 \/ ~in_range) =>
                 /\ s.result.trace = <<>>
                 /\ s.result.m = [bm |-> tick_bitmap, td |-> tick_data]
                 /\ s.outcome.raised \in {"LiquidityPoolError", "ValueError"}
                 /\ s.outcome.raised = "ValueError" <=> ~Calculated(s)

\* simulate_exact_input_swap was given a non-zero amount and, as limit, the
\* price the simulation starts from, and raised
C21_Witness ==
    /\ swap # None
    /\ swap[1].op = "simulate_exact_input_swap"
    /\ swap[1].amount_specified # 0
    /\ swap[1].sqrt_price_limit_x96 = Some(StartPrice(swap[1]))
    /\ swap[1].result.reverted = "SPL"
    /\ swap[1].outcome.raised = "LiquidityPoolError"

\* the amount of the token the request names (the input of an exact-input
\* call, the output of an exact-output call)
SpecifiedSide(s) ==
    IF s.zero_for_one = (s.amount_specified > 0) THEN s.result.amount0 ELSE s.result.amount1
\* token0 is the input token exactly when zero_for_one
InputAmount(s) == IF s.zero_for_one THEN s.result.amount0 ELSE s.result.amount1
OutputAmount(s) == IF s.zero_for_one THEN s.result.amount1 ELSE s.result.amount0

\* C22: in the result of a simulation, an exact-input swap has an input
\* token amount >= 0 and <= the specified input and an amount of the other
\* token <= 0; an exact-output swap has an output token amount <= 0 of
\* magnitude <= the requested output and an amount of the other token >= 0.
\* amount0 carries the specified side (amount_specified less what remains)
\* exactly when zero_for_one = exact_input, otherwise amount1 does.
C22_SignConvention ==
    (swap # None /\ swap[1].result.reverted = "") =>
        LET s == swap[1]
        IN /\ SpecifiedSide(s) = s.amount_specified - s.result.remaining
           /\ IF s.amount_specified > 0
              THEN /\ SpecifiedSide(s) = InputAmount(s)
                   /\ 0 <= InputAmount(s) /\ InputAmount(s) <= s.amount_specified
                   /\ OutputAmount(s) <= 0
              ELSE /\ SpecifiedSide(s) = OutputAmount(s)
                   /\ OutputAmount(s) <= 0 /\ -OutputAmount(s) <= -s.amount_specified
                   /\ InputAmount(s) >= 0

\* an exact-output request for token0 was filled in part: less token0 is paid
\* out than asked for, and token1 is paid in
C22_Witness ==
    /\ swap # None /\ swap[1].result.reverted = ""
    /\ swap[1].amount_specified < 0 /\ ~swap[1].zero_for_one
    /\ swap[1].result.amount0 < 0
    /\ -swap[1].result.amount0 < -swap[1].amount_specified
    /\ swap[1].result.amount1 > 0

\* C23: an exact-output simulation whose simulated amount paid out is
\* smaller than token_out_quantity raises instead of returning the partial
\* fill, in calculate_tokens_in_from_tokens_out and in
\* simulate_exact_output_swap alike.
C23_PartialFillRaises ==
    swap # None =>
        LET s == swap[1]
        IN (/\ s.op \in ExactOutputOps
            /\ s.result.reverted = ""
            /\ -OutputAmount(s) < -s.amount_specified) => s.outcome.raised # ""

\* the exact-output request for what the exact-input simulation s paid out:
\* same method family, direction, limit and state
RoundTrip(s) ==
    SwapOf(IF s.op \in SimulateOps THEN "simulate_exact_output_swap"
           ELSE "calculate_tokens_in_from_tokens_out",
           s.zero_for_one, -OutputAmount(s), s.sqrt_price_limit_x96, s.override_state,
           EmptyDict, {})

\* s is an exact-input simulation that returned and paid something out
PaidSomething(s) ==
    s.op \in ExactInputOps /\ s.result.reverted = "" /\ OutputAmount(s) < 0

-----------------------------------------------------------------------------
(* Notifications *)

\* the call just made notified the subscribers
Notifying == ncalls' = ncalls + 1 /\ notified' # None
\* the block the mutation of the call just made is recorded under
MutationBlock ==
    IF hist'[1].op = "external_update" THEN hist'[1].update.block_number
    ELSE IF hist'[1].op = "auto_update" THEN hist'[1].block
    ELSE update_block'
\* archive a maps block b to state s
ArchiveMaps(a, b, s) == ArchiveHas(a, b) /\ ArchiveGet(a, b) = s

\* C25: at the moment auto_update, external_update or
\* restore_state_before_block notifies the subscribers, the live state, the
\* archive entry of the block (when archiving is enabled) and update_block
\* already hold the values the call leaves, and the message carries that
\* final state.
C25_NotifiedAfterCommit ==
    [][Notifying =>
        LET n == notified'[1] IN
        /\ n.message = state'
        /\ n.state = state'
        /\ n.update_block = update_block'
        /\ archive_states => ArchiveMaps(n.archive, update_block', state')]_vars

FetchStored == fetching # None /\ fetching' = None

\* C27: in no interleaving with external_update does the store of a
\* simulation's bitmap-word fetch replace a bitmap word or a tick_data entry
\* the pool already holds, so no applied liquidity change is lost.
C27_FetchNeverOverwrites ==
    [][FetchStored =>
        /\ \A w \in DOMAIN tick_bitmap :
              w \in DOMAIN tick_bitmap' /\ tick_bitmap'[w] = tick_bitmap[w]
        /\ \A t \in DOMAIN tick_data :
              t \in DOMAIN tick_data' /\ tick_data'[t] = tick_data[t]]_vars

\* every read of a fetch names the block handed to the fetch
ReadsAt(fetch) ==
    \A i \in DOMAIN fetch.reads : fetch.reads[i].block_identifier = Some(fetch.block_number)
\* the bitmap reads of a fetch name the block handed to the fetch
BitmapReadsAt(fetch) ==
    \A i \in DOMAIN fetch.reads :
        fetch.reads[i].function = "tickBitmap(int16)" =>
            fetch.reads[i].block_identifier = Some(fetch.block_number)

\* C28: every provider read made while loading one bitmap word, the bitmap
\* and the liquidity of each initialized tick, is made at the block number
\* handed to the fetch: update.block_number - 1 in an external update,
\* update_block in a simulation.
C28_ReadsAtFetchBlock ==
    [][/\ Called("external_update") =>
             \A i \in DOMAIN hist'[1].fetches :
                 /\ hist'[1].fetches[i].block_number = hist'[1].update.block_number - 1
                 /\ ReadsAt(hist'[1].fetches[i])
       /\ fetching = None /\ fetching' # None =>
             /\ fetching'[1].block_number = update_block
             /\ ReadsAt(fetching'[1])]_vars

-----------------------------------------------------------------------------
(* Construction *)

\* the pool as the constructor leaves it
JustConstructed == ncalls = 0 /\ swap = None /\ fetching = None /\ hist = <<>>

\* C29: after the construction of a sparse pool, tick_bitmap holds the word of
\* the pool's current tick at the state block, and tick_data an entry for
\* every tick initialized in that word.
C29_CurrentWordLoaded ==
    JustConstructed /\ sparse_liquidity_map =>
        /\ TickWord(state.tick) \in DOMAIN tick_bitmap
        /\ \A t \in TicksInWord(TickWord(state.tick)) :
              IsInitialized(tick_bitmap, t) => t \in DOMAIN tick_data

-----------------------------------------------------------------------------
(* auto_update *)

\* the reading differs from the live state in at least one of the three values
ReadingDiffers(reading) ==
    \/ reading.sqrt_price_x96 # state.sqrt_price_x96
    \/ reading.tick # state.tick
    \/ reading.liquidity # state.liquidity

\* C30: auto_update(block_number) leaves each of sqrt_price_x96, tick and
\* liquidity at the value read at the block, replacing those that differed
\* and no other, returns True exactly when one differed, leaves tick_bitmap
\* and tick_data alone, and when one differed archives the new state under
\* block_number (if archiving is enabled) and publishes one notification;
\* when none differed it publishes nothing and writes no archive entry.
C30_RefreshReplacesDiffering ==
    [][Called("auto_update") =>
        LET c == hist'[1]
            r == hist'[1].reading
        IN /\ c.raised = ""
           /\ state' = [state EXCEPT !.sqrt_price_x96 = r.sqrt_price_x96,
                                     !.tick = r.tick,
                                     !.liquidity = r.liquidity]
           /\ c.ret = ReadingDiffers(r)
           /\ UNCHANGED <<tick_bitmap, tick_data>>
           /\ IF ReadingDiffers(r)
              THEN /\ c.published = <<state'>>
                   /\ notified' # None /\ notified'[1].message = state'
                   /\ IF archive_states
                      THEN /\ ArchiveMaps(archive', c.block, state')
                           /\ \A b \in ArchiveKeys(archive') \ {c.block} :
                                 ArchiveMaps(archive, b, ArchiveGet(archive', b))
                      ELSE archive' = archive
              ELSE /\ c.published = <<>>
                   /\ notified' = None
                   /\ archive' = archive]_vars

\* a second refresh that finds the liquidity alone moved
C30_Witness ==
    /\ Len(hist) = 2
    /\ hist[1].op = "auto_update" /\ hist[1].ret = TRUE
    /\ hist[2].op = "auto_update" /\ hist[2].ret = TRUE
    /\ hist[1].reading.tick = hist[2].reading.tick
    /\ hist[1].reading.sqrt_price_x96 = hist[2].reading.sqrt_price_x96
    /\ hist[1].reading.liquidity # hist[2].reading.liquidity
    /\ archive_states
    /\ ArchiveMaps(archive, hist[1].block, state)

-----------------------------------------------------------------------------
(* The pool manager *)

\* the get_pool calls that returned a pool
PoolsReturned == {r \in manager_log.returned : r.raised = ""}
BuiltAt(a) == {p \in manager_log.built : p.address = a}

\* C31: for one chain and factory, get_pool returns the same pool object for
\* the same address on every call and through every manager handle, and
\* builds the pool at most once, also when two threads call it at once for
\* an address not yet tracked.
C31_OnePoolPerAddress ==
    /\ \A r1 \in PoolsReturned, r2 \in PoolsReturned :
          r1.address = r2.address => r1.object = r2.object
    /\ \A a \in Addresses : Cardinality(BuiltAt(a)) <= 1

-----------------------------------------------------------------------------
(* The Web3 connection registry *)

\* the call just made to degenbot.config, and the calls before it
ConfigCalled == Len(config_calls') = Len(config_calls) + 1
NewCall == config_calls'[Len(config_calls')]
Earlier(op) == {i \in DOMAIN config_calls : config_calls[i].op = op}
SetWeb3Succeeded ==
    \E i \in Earlier("set_web3") : config_calls[i].raised = ""
\* is_connected() answered False to the call
Disconnected(c) == \E i \in DOMAIN c.answers : c.answers[i] = FALSE
\* the call before the one just made was a set_web3 that succeeded
JustSet ==
    /\ config_calls # <<>>
    /\ config_calls[Len(config_calls)].op = "set_web3"
    /\ config_calls[Len(config_calls)].raised = ""
LastSet == config_calls[Len(config_calls)].argument

\* rejected instances and the reads that follow a successful set_web3
RejectsAndReturns ==
    /\ NewCall.op \in {"set_web3", "register_web3"} /\ Disconnected(NewCall) =>
          /\ NewCall.raised = "DegenbotError"
          /\ UNCHANGED <<connections, default_chain_id>>
    /\ NewCall.op = "get_web3" /\ JustSet =>
          NewCall.raised = "" /\ NewCall.ret = Some(LastSet)
    /\ NewCall.op = "web3_connection_manager.get_web3" /\ JustSet
       /\ NewCall.argument = LastSet.chain_id =>
          NewCall.raised = "" /\ NewCall.ret = Some(LastSet)

\* C32, as stated: get_web3() raises DegenbotError as long as no connected
\* Web3 instance has been registered with set_web3; set_web3 and
\* register_web3 reject a disconnected instance with DegenbotError and
\* register nothing; after set_web3(w) succeeds, get_web3() and
\* web3_connection_manager.get_web3(chain id of w) return w.
C32_AsStated ==
    [][ConfigCalled =>
          /\ NewCall.op = "get_web3" /\ ~SetWeb3Succeeded =>
                NewCall.raised = "DegenbotError"
          /\ RejectsAndReturns]_vars

\* C32 (amended): get_web3() raises DegenbotError as long as the default
\* chain is unset or has no registered instance, which is the case until
\* set_web3 succeeds or set_default_chain is called; the rest as stated.
C32_Registry ==
    [][ConfigCalled =>
          /\ NewCall.op = "get_web3" =>
                /\ (default_chain_id = None
                    \/ default_chain_id[1] \notin DOMAIN connections) =>
                      NewCall.raised = "DegenbotError"
                /\ ~SetWeb3Succeeded /\ Earlier("set_default_chain") = {} =>
                      NewCall.raised = "DegenbotError"
          /\ RejectsAndReturns]_vars

C32_Witness ==
    /\ Len(config_calls) = 3
    /\ config_calls[1].op = "set_web3" /\ config_calls[1].raised = "DegenbotError"
    /\ config_calls[1].answers = <<TRUE, FALSE>>
    /\ config_calls[2].op = "set_web3" /\ config_calls[2].raised = ""
    /\ config_calls[3].op = "get_web3"
    /\ config_calls[3].ret = Some(config_calls[2].argument)

-----------------------------------------------------------------------------
(* The fee of an exact-input step *)

\* the computeSwapStep call of step record r
StepOf(r) ==
    computeSwapStep(r.start.sqrt_price_x96, r.target, r.start.liquidity,
                    r.start.amount_specified_remaining, FeePips)

\* C33: in computeSwapStep with amount_remaining > 0, amount_in + fee_amount
\* never exceeds amount_remaining and equals it when the step stops before
\* the target price; so the remaining amount of an exact-input simulation
\* never grows and never becomes negative.
C33_ExactInputFee ==
    swap # None /\ swap[1].op \in ExactInputOps =>
        LET t == swap[1].result.trace IN
        \A i \in StepsOf(swap[1]) :
            /\ t[i].start.amount_specified_remaining > 0 =>
                  \A step \in {StepOf(t[i])} :
                     /\ step.amount_in >= 0 /\ step.fee_amount >= 0
                     /\ step.amount_in + step.fee_amount
                           <= t[i].start.amount_specified_remaining
                     /\ step.sqrt_ratio_x96_next # t[i].target =>
                           step.amount_in + step.fee_amount
                              = t[i].start.amount_specified_remaining
            /\ t[i].end.amount_specified_remaining >= 0
            /\ t[i].end.amount_specified_remaining <= t[i].start.amount_specified_remaining
            /\ t[i].end.sqrt_price_x96 # t[i].target =>
                  t[i].end.amount_specified_remaining = 0

\* a swap whose first step reaches its target with the fee on top and whose
\* second step stops short, the remainder taken as fee
C33_Witness ==
    /\ swap # None /\ swap[1].op \in ExactInputOps
    /\ swap[1].result.reverted = ""
    /\ \E i \in StepsOf(swap[1]), j \in StepsOf(swap[1]) :
          LET t == swap[1].result.trace IN
          /\ i < j
          /\ t[i].end.sqrt_price_x96 = t[i].target
          /\ t[i].end.amount_specified_remaining > 0
          /\ t[i].end.amount_specified_remaining < t[i].start.amount_specified_remaining
          /\ t[j].end.sqrt_price_x96 # t[j].target
          /\ t[j].end.sqrt_price_x96 # t[j].start.sqrt_price_x96
          /\ t[j].end.amount_specified_remaining = 0

-----------------------------------------------------------------------------
(* C34 *)

AllWords == TickWord(MIN_TICK)..TickWord(MAX_TICK)
MetMissingWord ==
    /\ swap # None
    /\ \/ swap[1].result.reverted = "AssertionError"
       \/ \E i \in DOMAIN swap[1].result.trace : swap[1].result.trace[i].kind = "fetch"

\* C34: a pool constructed with explicit tick_bitmap and tick_data is
\* non-sparse and holds a word for every word position from that of MIN_TICK
\* to that of MAX_TICK; no liquidity event, refresh, rollback or simulation
\* removes a word, and no simulation on the live state meets a missing word,
\* so the assertion on sparse_liquidity_map never fails.
C34_EveryWordHeld ==
    /\ ~sparse_liquidity_map
    /\ AllWords \subseteq DOMAIN tick_bitmap
    /\ ~MetMissingWord
C34_WordsKept == [][DOMAIN tick_bitmap \subseteq DOMAIN tick_bitmap']_vars

\* a simulation has walked from the word of the current tick into the next
\* word below after liquidity events and a rollback
C34_Witness ==
    /\ swap # None
    /\ swap[1].override_state = None
    /\ \E i \in DOMAIN swap[1].result.trace :
          /\ swap[1].result.trace[i].kind = "step"
          /\ TickWord(swap[1].result.trace[i].start.tick) = -1
    /\ Len(hist) = 2
    /\ hist[1].op = "restore_state_before_block" /\ hist[1].raised = ""
    /\ hist[2].op = "external_update" /\ hist[2].ret

-----------------------------------------------------------------------------
(* C35 *)

\* C35: every call of _calculate_swap terminates when each provider fetch
\* returns, on the live state and on any override state, also an override
\* whose own tick_bitmap lacks a word the swap needs.
C35_SwapTerminates == swap # None => swap[1].result.reverted # "NeverReturns"

\* what holds: the loop ends whenever _tick_bitmap is the pool's own dict
C35_LiveSwapTerminates ==
    (swap # None /\ (swap[1].override_state = None \/ swap[1].override_state[1].maps = None))
        => swap[1].result.reverted # "NeverReturns"

-----------------------------------------------------------------------------
(* C36 *)

RecordedInIncreasingOrder ==
    \A i, j \in DOMAIN archive : i < j => archive[i].block < archive[j].block
UpdateOrRefresh ==
    /\ ncalls' = ncalls + 1
    /\ hist'[1].op \in {"auto_update", "external_update"}

\* C36: update_block never decreases except through
\* restore_state_before_block: an auto_update or external_update, whatever
\* its block_number, leaves it greater than or equal to what it was, and the
\* archive's block numbers are recorded in increasing order.
C36_UpdateBlockMonotone ==
    /\ []RecordedInIncreasingOrder
    /\ [][UpdateOrRefresh => update_block' >= update_block]_vars

\* what holds: external_update alone never lowers update_block
C36_ExternalUpdateMonotone ==
    [][(ncalls' = ncalls + 1 /\ hist'[1].op = "external_update")
          => update_block' >= update_block]_vars

-----------------------------------------------------------------------------
(* C37 *)

RestoreReturned == Called("restore_state_before_block") /\ hist'[1].raised = ""
LandsBefore(block) ==
    /\ update_block' < block
    /\ ArchiveHas(archive', update_block')
    /\ state' = ArchiveGet(archive', update_block')

\* C37: after restore_state_before_block(B) returns without raising,
\* update_block is strictly less than B and the live state is the archived
\* snapshot stored under update_block, whatever auto_update and
\* external_update calls came before, refreshes that found no change included.
C37_RestoreLandsBefore == [][RestoreReturned => LandsBefore(hist'[1].block)]_vars

\* what holds: a rollback that removes a snapshot lands before the block
C37_RollbackLandsBefore ==
    [][(RestoreReturned /\ archive' # archive) => LandsBefore(hist'[1].block)]_vars

-----------------------------------------------------------------------------
(* C38 *)

TickOfBit(w, i) == (w * WordBits + i) * TickSpacing
WordAgrees(bm, td, w) ==
    {TickOfBit(w, i) : i \in bm[w].bitmap} = {t \in DOMAIN td : TickWord(t) = w}
MapsAgree(bm, td) == \A w \in DOMAIN bm : WordAgrees(bm, td, w)

\* C38: for every bitmap word the pool holds, bit i of word w is set if and
\* only if tick (w*256+i)*tick_spacing has an entry in tick_data; the pool
\* starts with maps that agree and every external_update, with or without a
\* liquidity_change, leaves them agreeing.
C38_BitmapAgreesWithTicks == MapsAgree(tick_bitmap, tick_data)

\* a liquidity_change referred to a tick for the first time (bit set, entry
\* created) and the next one took its gross liquidity back to zero (entry
\* deleted, bit cleared)
C38_Witness ==
    /\ Len(hist) = 2
    /\ hist[2].op = "external_update" /\ hist[2].ret
    /\ hist[2].update.liquidity_change = <<1, -60, 60>>
    /\ ~Val(hist[2].before).lower.known /\ ~Val(hist[2].before).lower.initialized
    /\ hist[1].op = "external_update" /\ hist[1].ret
    /\ hist[1].update.liquidity_change = <<-1, -60, 60>>
    /\ Val(hist[1].before).lower.known /\ Val(hist[1].before).lower.initialized
    /\ Val(hist[1].before).lower.liquidityGross = 1
    /\ TickWord(-60) \in DOMAIN tick_bitmap
    /\ -60 \notin DOMAIN tick_data /\ ~IsInitialized(tick_bitmap, -60)

-----------------------------------------------------------------------------
(* C39 *)

UpdateRaised == Called("external_update") /\ hist'[1].raised # ""

\* C39: external_update is atomic with respect to failure: when it raises,
\* also partway through, the live state with its two maps, the archive and
\* update_block are exactly as before the call.
C39_FailureLeavesPoolUntouched ==
    [][UpdateRaised => UNCHANGED <<state, tick_bitmap, tick_data, archive, update_block>>]_vars

\* what holds: a call that raises leaves the archive and update_block as they
\* were, and a rejected stale update leaves the live state as well
C39_FailureKeepsArchive ==
    [][UpdateRaised =>
          /\ UNCHANGED <<archive, update_block>>
          /\ hist'[1].raised = "ExternalUpdateError"
                => UNCHANGED <<state, tick_bitmap, tick_data>>]_vars

-----------------------------------------------------------------------------
(* C40 *)

Reported == swap # None /\ swap[1].outcome.raised = ""

\* C40: the UniswapV3PoolSimulationResult of simulate_exact_input_swap and
\* simulate_exact_output_swap reports as initial_state the state the
\* simulation ran against: the override state when one is supplied, otherwise
\* the live state as the simulation read it, also when another thread
\* replaces the live state before the call returns.
C40_InitialStateIsSimulated == Reported => swap[1].initial_state = swap[1].ran_against

\* what holds: the initial_state is the live state at the time the call returns
C40_InitialStateIsLiveAtReturn ==
    [][(simulating # None /\ swap' # None) => swap'[1].initial_state = state]_vars
\* and is the state simulated when no override is given and no update ran
\* during the call
C40_QuietCallReportsSimulated ==
    (Reported /\ swap[1].override_state = None /\ swap[1].mutations = 0)
        => swap[1].initial_state = swap[1].ran_against

====
